---- MODULE Spec2Model ----
(***************************************************************************)
(* Request pipeline of the e-commerce REST backend: the in-memory response *)
(* cache (src/middlewares/cache.js), the authentication and authorization  *)
(* middlewares (middlewares/auth.js), the rate limiters and the route      *)
(* stacks of the v1 API.  Time is Date.now() in milliseconds; the clock    *)
(* advances in steps of TickMs.                                            *)
(***************************************************************************)
EXTENDS Integers, Sequences, FiniteSets, TLC

VARIABLES
  cache,         \* MemoryCache.cache : key -> [data, timestamp, ttl]
  timers,        \* MemoryCache.timers: key -> due time of the pending timeout
  now,           \* Date.now()
  users,         \* the User table: id -> [role, status]
  last,          \* the outcome of the last request that was processed
  lastGet,       \* the outcome of the last direct MemoryCache.get
  userRequests,  \* userRateLimit's map: user id -> admitted timestamps
  admitted,      \* history: every timestamp at which userRateLimit admitted
  authStore,     \* express-rate-limit store of authRateLimit
  loginCount,    \* history: login requests per ip since the last reset
  dynCount,      \* history: requests per principal in the current window
  win,           \* history: per user, start and request count of its window
  firstMiss,     \* history: per route, the anonymous GET that filled a cold cache
  refreshTokens, \* the RefreshToken table: token -> [userId, expiresAt, isRevoked]
  held,          \* the access tokens the client has received, with their source
  inflight       \* requests suspended at an await: id -> what they hold

vars ==
  <<cache, timers, now, users, last, lastGet, userRequests, admitted,
    authStore, loginCount, dynCount, win, firstMiss, refreshTokens, held, inflight>>

-----------------------------------------------------------------------------
(* Bounds of the model *)

MaxTicks == 2
MaxTtlTicks == 2
MaxRequests == 2
WindowTicks == 2
DynCap == 101
AttemptCap == 2

TickMs == 15 * 60 * 1000

MaxTime == MaxTicks * TickMs

-----------------------------------------------------------------------------
(* src/config/constants.js *)

CACHE_TTL_MEDIUM == 1800
TTL_PRODUCTS == 900
TTL_SEARCH == 600
TTL_CATEGORIES == 1800
TTL_DETAIL == 1800
AUTH_MAX_REQUESTS == 10
AUTH_WINDOW_MS == 15 * 60 * 1000
JWT_EXPIRE_MS == 15 * 60 * 1000
DYN_WINDOW_MS == 15 * 60 * 1000

USER_STATUS == {"active", "inactive", "suspended", "pending"}

-----------------------------------------------------------------------------
(* Helpers *)

Restrict(f, S) == [k \in S |-> f[k]]

Override(f, k, v) == (k :> v) @@ f

EmptyMap == [k \in {} |-> 0]

-----------------------------------------------------------------------------
(* MemoryCache (cache.js 7-85).  A store is [cache, timers].               *)

NoData ==
  [route |-> "none", forUser |-> 0, at |-> 0, message |-> "", token |-> "none",
   errors |-> <<>>]

\* MemoryCache.set without the clearTimeout of lines 14-16: the timer armed
\* by an earlier set of the key stays the pending one
CacheSetKeepsTimer(st, key, value, ttl, t) ==
  [cache  |-> Override(st.cache, key,
                       [data |-> value, timestamp |-> t, ttl |-> ttl * 1000]),
   timers |-> IF key \in DOMAIN st.timers
                THEN st.timers
                ELSE Override(st.timers, key, t + ttl * 1000)]

\* MemoryCache.set(key, value, ttl): clears a pending timer of the key,
\* writes {data, timestamp: now, ttl: ttl*1000} and arms a new timer.
CacheSet(st, key, value, ttl, t) ==
  [cache  |-> Override(st.cache, key,
                       [data |-> value, timestamp |-> t, ttl |-> ttl * 1000]),
   timers |-> Override(st.timers, key, t + ttl * 1000)]

\* MemoryCache.delete(key)
CacheDelete(st, key) ==
  [cache  |-> Restrict(st.cache, DOMAIN st.cache \ {key}),
   timers |-> Restrict(st.timers, DOMAIN st.timers \ {key})]

\* MemoryCache.get(key) with the expiry test left out
CacheGetNoExpiry(st, key, t) ==
  IF key \notin DOMAIN st.cache
    THEN [store |-> st, hit |-> FALSE, data |-> NoData]
    ELSE [store |-> st, hit |-> TRUE, data |-> st.cache[key].data]

\* MemoryCache.get(key): null when absent; deletes and returns null when
\* Date.now() - timestamp > ttl; the data otherwise.
CacheGet(st, key, t) ==
  IF key \notin DOMAIN st.cache
    THEN [store |-> st, hit |-> FALSE, data |-> NoData]
    ELSE IF t - st.cache[key].timestamp > st.cache[key].ttl
      THEN [store |-> CacheDelete(st, key), hit |-> FALSE, data |-> NoData]
      ELSE [store |-> st, hit |-> TRUE, data |-> st.cache[key].data]

\* MemoryCache.clear()
CacheClear(st) ==
  [cache |-> EmptyMap, timers |-> EmptyMap]

\* MemoryCache.keys()
CacheKeys(st) == DOMAIN st.cache

Store == [cache |-> cache, timers |-> timers]

-----------------------------------------------------------------------------
(* Requests.  A path is a sequence of tokens: words of [a-zA-Z0-9]+ and    *)
(* the separators between them.                                            *)

Range(s) == {s[i] : i \in DOMAIN s}

NonAlnum == {"/", "-", "."}

\* req.path.replace(/[^a-zA-Z0-9]/g, '_')
SanitizePath(p) ==
  [i \in 1..Len(p) |-> IF p[i] \in NonAlnum THEN "_" ELSE p[i]]

NoHeader == [kind |-> "none", sub |-> 0, exp |-> 0, sig |-> "none"]

BasicHeader == [kind |-> "basic", sub |-> 0, exp |-> 0, sig |-> "none"]

Bearer(sub, exp, sig) == [kind |-> "bearer", sub |-> sub, exp |-> exp, sig |-> sig]

NoUser ==
  [id |-> 0, role |-> "none", status |-> "none", isEmailVerified |-> FALSE]

\* jwt.verify(token, jwtSecret): the signature is checked first, then exp.
JwtVerify(hdr, t) ==
  IF hdr.sig # "ok" THEN "JsonWebTokenError"
  ELSE IF t >= hdr.exp THEN "TokenExpiredError"
  ELSE "ok"

\* User.findByPk(id): the row, or null
FindByPk(db, id) ==
  IF id \in DOMAIN db
    THEN [id |-> id, role |-> db[id].role, status |-> db[id].status,
          isEmailVerified |-> db[id].isEmailVerified]
    ELSE NoUser

-----------------------------------------------------------------------------
(* Stage descriptors of the declared stacks *)

StPass(name) ==
  [kind |-> name, ttl |-> 0, level |-> "v1", roles |-> {}, patterns |-> <<>>,
   prop |-> "", cacheAuthenticated |-> FALSE]

\* cache.apiCache(ttl); level says which router's req.path the stage sees
StApiCache(ttl, level) ==
  [StPass("apiCache") EXCEPT !.ttl = ttl, !.level = level]

StAuthorize(roles) == [StPass("authorize") EXCEPT !.roles = roles]

StValidate(prop) == [StPass("validate") EXCEPT !.prop = prop]

StOwnerOrAdmin(resourceIdParam) ==
  [StPass("ownerOrAdmin") EXCEPT !.prop = resourceIdParam]

StInvalidate(patterns) == [StPass("invalidateCache") EXCEPT !.patterns = patterns]

StHandler == StPass("handler")

adminOnly == StAuthorize({"admin"})

\* middlewares/index.js 46-51
apiStack ==
  <<StPass("logger"), StPass("sanitize"),
    StApiCache(CACHE_TTL_MEDIUM, "v1"), StPass("optionalAuth")>>

\* middlewares/index.js 56-59
protectedStack == <<StPass("authenticate"), StPass("userRateLimit")>>

\* adminOnly declared before authenticate
adminStackSwapped ==
  <<adminOnly, StPass("authenticate"), StInvalidate(<<"admin", "api">>)>>

\* middlewares/index.js 64-68
adminStack ==
  <<StPass("authenticate"), adminOnly, StInvalidate(<<"admin", "api">>)>>

\* middlewares/index.js 73-77
uploadStack ==
  <<StPass("authenticate"), StPass("uploadRateLimit"),
    StPass("fileCleanupOnError")>>

idPath == <<"/", "1">>

\* Each route: the router it is mounted on, its path in that router and the
\* stack declared for it.

\* routes/api/v1/products.js
productRoutes ==
  [getProducts |->
     [method |-> "GET", mount |-> "products", sub |-> <<"/">>,
      stack |-> <<StValidate("query"), StApiCache(TTL_PRODUCTS, "route")>>],
   searchProducts |->
     [method |-> "GET", mount |-> "products", sub |-> <<"/", "search">>,
      stack |-> <<StValidate("query"), StApiCache(TTL_SEARCH, "route")>>],
   getProductById |->
     [method |-> "GET", mount |-> "products", sub |-> idPath,
      stack |-> <<StValidate("params"), StApiCache(TTL_DETAIL, "route")>>],
   createProduct |->
     [method |-> "POST", mount |-> "products", sub |-> <<"/">>,
      stack |-> <<StPass("authenticate"), adminOnly, StValidate("body"),
                  StInvalidate(<<"products", "api">>)>>],
   updateProduct |->
     [method |-> "PUT", mount |-> "products", sub |-> idPath,
      stack |-> <<StPass("authenticate"), adminOnly, StValidate("params"),
                  StValidate("body"), StInvalidate(<<"products", "api">>)>>],
   deleteProduct |->
     [method |-> "DELETE", mount |-> "products", sub |-> idPath,
      stack |-> <<StPass("authenticate"), adminOnly, StValidate("params"),
                  StInvalidate(<<"products", "api">>)>>]]

\* routes/api/v1/categories.js
categoryRoutes ==
  [getCategories |->
     [method |-> "GET", mount |-> "categories", sub |-> <<"/">>,
      stack |-> <<StApiCache(TTL_CATEGORIES, "route")>>],
   getCategoryById |->
     [method |-> "GET", mount |-> "categories", sub |-> idPath,
      stack |-> <<StValidate("params"), StApiCache(TTL_CATEGORIES, "route")>>],
   createCategory |->
     [method |-> "POST", mount |-> "categories", sub |-> <<"/">>,
      stack |-> <<StPass("authenticate"), adminOnly, StValidate("body"),
                  StInvalidate(<<"categories", "api">>)>>],
   updateCategory |->
     [method |-> "PUT", mount |-> "categories", sub |-> idPath,
      stack |-> <<StPass("authenticate"), adminOnly, StValidate("params"),
                  StValidate("body"), StInvalidate(<<"categories", "api">>)>>],
   deleteCategory |->
     [method |-> "DELETE", mount |-> "categories", sub |-> idPath,
      stack |-> <<StPass("authenticate"), adminOnly, StValidate("params"),
                  StInvalidate(<<"categories", "api">>)>>]]

\* routes/api/v1/orders.js
orderRoutes ==
  [getOrders |->
     [method |-> "GET", mount |-> "orders", sub |-> <<"/">>,
      stack |-> <<StPass("authenticate"), StValidate("query")>>],
   updateOrderStatus |->
     [method |-> "PUT", mount |-> "orders", sub |-> idPath \o <<"/", "status">>,
      stack |-> <<StPass("authenticate"), adminOnly, StValidate("params"),
                  StValidate("body")>>]]

\* routes/api/v1/users.js
profilePath == <<"/", "profile">>

userRoutes ==
  [getUsers |->
     [method |-> "GET", mount |-> "users", sub |-> <<"/">>,
      stack |-> <<StPass("authenticate"), adminOnly, StValidate("query")>>],
   getUserById |->
     [method |-> "GET", mount |-> "users", sub |-> idPath,
      stack |-> <<StPass("authenticate"), StValidate("params")>>],
   getProfile |->
     [method |-> "GET", mount |-> "users", sub |-> profilePath,
      stack |-> <<StPass("authenticate")>>],
   updateProfile |->
     [method |-> "PUT", mount |-> "users", sub |-> profilePath,
      stack |-> <<StPass("authenticate"), StValidate("body")>>],
   updateUser |->
     [method |-> "PUT", mount |-> "users", sub |-> idPath,
      stack |-> <<StPass("authenticate"), adminOnly, StValidate("params"),
                  StValidate("body")>>],
   deleteUser |->
     [method |-> "DELETE", mount |-> "users", sub |-> idPath,
      stack |-> <<StPass("authenticate"), adminOnly, StValidate("params")>>]]

\* routes/api/v1/auth.js
authRoutes ==
  [login |->
     [method |-> "POST", mount |-> "auth", sub |-> <<"/", "login">>,
      stack |-> <<StPass("authRateLimit"), StValidate("body")>>],
   register |->
     [method |-> "POST", mount |-> "auth", sub |-> <<"/", "register">>,
      stack |-> <<StPass("authRateLimit"), StValidate("body")>>],
   refreshToken |->
     [method |-> "POST", mount |-> "auth", sub |-> <<"/", "refresh-token">>,
      stack |-> <<StPass("authRateLimit")>>]]

\* routes/api/v1/index.js: the routers mounted on the v1 router
Routes ==
  authRoutes @@ userRoutes @@ categoryRoutes @@ productRoutes @@ orderRoutes

\* req.path as seen by a stage of the v1 router or of the mounted router
ReqPath(r, level) ==
  IF level = "v1"
    THEN <<"/", r.mount>> \o (IF r.sub = <<"/">> THEN <<>> ELSE r.sub)
    ELSE r.sub

RECURSIVE JsonMembers(_, _)
\* the members of JSON.stringify(object): "name":"value" joined by ','
JsonMembers(query, i) ==
  IF i > Len(query) THEN <<>>
  ELSE (IF i > 1 THEN <<",">> ELSE <<>>)
       \o <<query[i][1], ":", query[i][2]>> \o JsonMembers(query, i + 1)

\* JSON.stringify(req.query).  req.query is the object the query string was
\* parsed to, a sequence of <<name, value>> here: its properties are written
\* in the order they were created, the order of the query string; validate
\* (schema.validate on a copy of req.query) keeps that order.
JsonStringify(query) == <<"{">> \o JsonMembers(query, 1) \o <<"}">>

\* apiCache's keyGenerator: ['api', method, sanitised path, query].join(':')
ApiKey(r, query, level) ==
  <<"api", r.method, SanitizePath(ReqPath(r, level)), JsonStringify(query)>>

\* key.includes(pattern): no word of the vocabulary contains another one
KeyIncludes(key, pattern) ==
  pattern \in {key[1], key[2]} \cup Range(key[3]) \cup Range(key[4])

-----------------------------------------------------------------------------
(* One request in flight.  ctx carries req.user, the response under        *)
(* construction, the res.json / res.send wrappers installed so far and the *)
(* shared stores the stages read and write.                                *)

Msg(m) == [NoData EXCEPT !.message = m]

\* no error is passed to next()
NoErr ==
  [name |-> "none", statusCode |-> 0, status |-> 0, message |-> "",
   errors |-> <<>>, body |-> FALSE]

\* what a failing operation of the cache store throws
StoreError == [NoErr EXCEPT !.name = "Error", !.message = "cache failure"]

InitCtx(t) ==
  [t |-> t, store |-> Store, db |-> users, user |-> NoUser,
   jsonWraps |-> <<>>, sendWraps |-> <<>>,
   sent |-> FALSE, status |-> 200, body |-> NoData, xcache |-> "none",
   ran |-> <<>>, handlerRan |-> FALSE, hitAt |-> <<>>,
   stored |-> {}, purged |-> {},
   userRequests |-> userRequests, authStore |-> authStore,
   responses |-> 0, verifies |-> <<>>, fault |-> "none", thrown |-> NoErr,
   securityLog |-> <<>>]

RECURSIVE DeleteAll(_, _)
\* keys.forEach(key => cache.delete(key))
DeleteAll(st, ks) ==
  IF ks = {} THEN st
  ELSE LET k == CHOOSE x \in ks : TRUE
       IN DeleteAll(CacheDelete(st, k), ks \ {k})

RECURSIVE PurgePatterns(_, _, _)
\* invalidateCache's res.send wrapper: for each pattern in order, delete the
\* keys that include it
PurgePatterns(c, patterns, i) ==
  IF i > Len(patterns) THEN c
  ELSE LET ks == {k \in CacheKeys(c.store) : KeyIncludes(k, patterns[i])}
       IN PurgePatterns([c EXCEPT !.store = DeleteAll(@, ks),
                                  !.purged = @ \cup ks], patterns, i + 1)

RECURSIVE ApplySendWrapsStrict(_, _)
\* res.send wrapper that tests statusCode > 200 instead of >= 200
ApplySendWrapsStrict(c, i) ==
  IF i = 0 THEN c
  ELSE ApplySendWrapsStrict(
         IF c.status > 200 /\ c.status < 300
           THEN PurgePatterns(c, c.sendWraps[i], 1)
           ELSE c,
         i - 1)

RECURSIVE ApplySendWraps(_, _)
\* res.send(data): the wrappers run from the one installed last to the first;
\* each purges only when 200 <= res.statusCode < 300.
ApplySendWraps(c, i) ==
  IF i = 0 THEN c
  ELSE ApplySendWraps(
         IF c.status >= 200 /\ c.status < 300
           THEN PurgePatterns(c, c.sendWraps[i], 1)
           ELSE c,
         i - 1)

\* res.json wrapper that marks MISS but never calls cache.set
ApplyJsonWrapsNoStore(c, data, i) ==
  IF i = 0 \/ c.status # 200 THEN c ELSE [c EXCEPT !.xcache = "MISS"]

RECURSIVE ApplyJsonWraps(_, _, _)
\* res.json(data): cacheMiddleware's wrappers run from the one installed last
\* to the first; each stores the body and marks MISS when statusCode is 200.
\* Nothing catches what cache.set throws: the wrapper is left and
\* originalJson is not called.
ApplyJsonWraps(c, data, i) ==
  IF i = 0 THEN c
  ELSE IF c.status = 200 /\ c.fault = "set"
    THEN [c EXCEPT !.thrown = StoreError]
  ELSE ApplyJsonWraps(
         IF c.status = 200
           THEN [c EXCEPT
                   !.store = CacheSet(@, c.jsonWraps[i].key, data,
                                      c.jsonWraps[i].ttl, c.t),
                   !.xcache = "MISS",
                   !.stored = @ \cup {c.jsonWraps[i].key}]
           ELSE c,
         data, i - 1)

\* res.json(data) with the current res.statusCode: the json wrappers, then
\* express's res.json calls res.send, then the response is on the wire.
Json(c, data) ==
  LET c1 == ApplyJsonWraps(c, data, Len(c.jsonWraps))
      c2 == ApplySendWraps(c1, Len(c1.sendWraps))
  IN IF c1.thrown # NoErr THEN c1
     ELSE [c2 EXCEPT !.sent = TRUE, !.body = data, !.responses = @ + 1]

\* res.status(code).json(data)
Respond(c, code, data) == Json([c EXCEPT !.status = code], data)

-----------------------------------------------------------------------------
(* The stages *)

\* the global error handler of app.js (192-200): status err.status || 500
GlobalErrorHandler(c) ==
  Respond([c EXCEPT !.thrown = NoErr],
          IF c.thrown.status # 0 THEN c.thrown.status ELSE 500,
          Msg(IF c.thrown.message # "" THEN c.thrown.message
              ELSE "Internal Server Error"))

\* cacheMiddleware as configured by apiCache (cache.js 100-135).  Neither
\* keyGenerator(req) nor cache.get(cacheKey) is inside a try: what they throw
\* leaves the middleware.
CacheMiddleware(s, c, req) ==
  IF c.user # NoUser /\ ~s.cacheAuthenticated THEN c
  ELSE IF c.fault = "key" THEN [c EXCEPT !.thrown = StoreError]
  ELSE LET key == ApiKey(Routes[req.route], req.query, s.level)
       IN IF Routes[req.route].method # "GET" THEN c
          ELSE IF c.fault = "get" THEN [c EXCEPT !.thrown = StoreError]
          ELSE LET g == CacheGet(c.store, key, c.t)
                   c1 == [c EXCEPT !.store = g.store]
               IN IF g.hit
                    THEN Json([c1 EXCEPT !.xcache = "HIT",
                                         !.hitAt = Append(@, s.level)],
                              g.data)
                    ELSE [c1 EXCEPT !.jsonWraps =
                            Append(@, [key |-> key, ttl |-> s.ttl])]

\* jwt.verify(token, jwtSecret) is called by the named stage
Verified(c, stage) == [c EXCEPT !.verifies = Append(@, stage)]

\* authenticate without the test of user.status
AuthenticateNoStatus(c, req) ==
  IF req.hdr.kind # "bearer"
    THEN Respond(c, 401, Msg("No token provided"))
  ELSE LET v == Verified(c, "authenticate")
  IN IF JwtVerify(req.hdr, c.t) = "TokenExpiredError"
    THEN Respond(v, 401, Msg("Token expired"))
  ELSE IF JwtVerify(req.hdr, c.t) = "JsonWebTokenError"
    THEN Respond(v, 401, Msg("Invalid token"))
  ELSE IF req.db # "ok"
    THEN Respond(v, 401, Msg("Authentication failed"))
  ELSE IF FindByPk(c.db, req.hdr.sub) = NoUser
    THEN Respond(v, 401, Msg("Invalid token - user not found"))
  ELSE [v EXCEPT !.user = FindByPk(c.db, req.hdr.sub)]

\* authenticate (auth.js 11-56)
Authenticate(c, req) ==
  IF req.hdr.kind # "bearer"
    THEN Respond(c, 401, Msg("No token provided"))
  ELSE LET v == Verified(c, "authenticate")
  IN IF JwtVerify(req.hdr, c.t) = "TokenExpiredError"
    THEN Respond(v, 401, Msg("Token expired"))
  ELSE IF JwtVerify(req.hdr, c.t) = "JsonWebTokenError"
    THEN Respond(v, 401, Msg("Invalid token"))
  ELSE IF req.db # "ok"
    THEN Respond(v, 401, Msg("Authentication failed"))
  ELSE IF FindByPk(c.db, req.hdr.sub) = NoUser
    THEN Respond(v, 401, Msg("Invalid token - user not found"))
  ELSE IF FindByPk(c.db, req.hdr.sub).status # "active"
    THEN Respond(v, 401, Msg("Account is not active"))
  ELSE [v EXCEPT !.user = FindByPk(c.db, req.hdr.sub)]

\* optionalAuth (auth.js 62-86)
OptionalAuth(c, req) ==
  IF req.hdr.kind # "bearer" THEN c
  ELSE LET v == Verified(c, "optionalAuth")
  IN IF JwtVerify(req.hdr, c.t) # "ok" THEN v
  ELSE IF req.db # "ok" THEN v
  ELSE IF FindByPk(c.db, req.hdr.sub) # NoUser
          /\ FindByPk(c.db, req.hdr.sub).status = "active"
    THEN [v EXCEPT !.user = FindByPk(c.db, req.hdr.sub)]
  ELSE v

\* authorize without the test of the role
AuthorizeAnyRole(s, c, req) ==
  IF c.user = NoUser THEN Respond(c, 401, Msg("Authentication required"))
  ELSE c

\* logger.logSecurity.suspiciousActivity(ip, userAgent, activity), the
\* activity naming req.originalUrl, req.user.id and req.user.role
SuspiciousActivity(c, req) ==
  [c EXCEPT !.securityLog =
     Append(@, [event |-> "suspicious_activity", ip |-> req.ip,
                path |-> req.route, userId |-> c.user.id,
                role |-> c.user.role])]

\* authorize(...roles) (auth.js 91-108)
Authorize(s, c, req) ==
  IF c.user = NoUser THEN Respond(c, 401, Msg("Authentication required"))
  ELSE IF c.user.role \notin s.roles
    THEN Respond(SuspiciousActivity(c, req), 403,
                 Msg("Insufficient permissions"))
  ELSE c

\* requireEmailVerification (auth.js 151-161)
RequireEmailVerification(c, req) ==
  IF c.user = NoUser THEN Respond(c, 401, Msg("Authentication required"))
  ELSE IF ~c.user.isEmailVerified
    THEN Respond(c, 403, Msg("Email verification required"))
  ELSE c

\* the permissions of a role, 'users.read' written <<"users", "read">>
Permissions(role) ==
  CASE role = "admin" -> {<<"*">>}
    [] role = "moderator" ->
         {<<"users", "read">>, <<"products", "*">>, <<"orders", "read">>}
    [] role = "user" -> {<<"profile", "*">>, <<"orders", "own">>}
    [] OTHER -> {}

\* User.prototype.canAccess(resource) (models/User.js): '*' grants all, a
\* permission ending in '.*' grants the resources that start with its prefix
CanAccess(role, resource) ==
  \/ <<"*">> \in Permissions(role)
  \/ \E perm \in Permissions(role) :
       IF Len(perm) = 2 /\ perm[2] = "*" THEN resource[1] = perm[1]
       ELSE perm = resource

\* requirePermission(resource) (auth.js 205-217)
RequirePermission(s, c, req) ==
  IF c.user = NoUser THEN Respond(c, 401, Msg("Authentication required"))
  ELSE IF ~CanAccess(c.user.role, s.patterns)
    THEN Respond(c, 403, Msg("Insufficient permissions"))
  ELSE c

\* a route parameter is a string; == compares it with a number by value
ToNumber(str) ==
  CASE str = "1" -> 1 [] str = "2" -> 2 [] str = "4" -> 4 [] str = "02" -> 2
    [] OTHER -> 0

\* ownerOrAdmin(resourceIdParam) (auth.js 124-146)
OwnerOrAdmin(s, c, req) ==
  IF c.user = NoUser THEN Respond(c, 401, Msg("Authentication required"))
  ELSE IF c.user.role = "admin" THEN c
  ELSE IF s.prop = "id" /\ "id" \in DOMAIN req.params
          /\ ToNumber(req.params["id"]) = c.user.id
    THEN c
  ELSE Respond(c, 403, Msg("Access denied"))

\* validate answering 422 without return: next() is called as well
ValidateNoReturn(s, c, req) ==
  IF s.prop = "body" /\ req.data = "undefined"
    THEN Respond(c, 400, Msg("No body data provided"))
  ELSE IF req.data \in {"invalid", "empty"}
    THEN [Respond(c, 422, [Msg("Validation failed")
                             EXCEPT !.errors = <<"field">>])
            EXCEPT !.sent = FALSE]
  ELSE c

\* validate(schema, property) (validation.js 8-46); req.data says whether the
\* request's data satisfies the schema.  express.json() (app.js 46) leaves
\* req.body = {} when no body was sent ("empty"), which fails the schemas'
\* required fields; "undefined" is a request without a parsed body.
Validate(s, c, req) ==
  IF s.prop = "body" /\ req.data = "undefined"
    THEN Respond(c, 400, Msg("No body data provided"))
  ELSE IF req.data \in {"invalid", "empty"}
    THEN Respond(c, 422, [Msg("Validation failed") EXCEPT !.errors = <<"field">>])
  ELSE c

\* invalidateCache that purges when the middleware runs instead of wrapping
\* res.send
InvalidateCacheEager(s, c, req) == PurgePatterns(c, s.patterns, 1)

\* invalidateCache(patterns) (cache.js 160-178): wraps res.send
InvalidateCache(s, c, req) ==
  [c EXCEPT !.sendWraps = Append(@, s.patterns)]

\* data.token of the mock auth controllers (routes/api/v1/auth.js 16-33)
IssuedToken(route) ==
  CASE route = "login" -> "mock-jwt-token"
    [] route = "refreshToken" -> "new-mock-jwt-token"
    [] OTHER -> "none"

\* the mock controllers: res.json({...}) with the default status 200
Handler(c, req) ==
  Json([c EXCEPT !.handlerRan = TRUE],
       [NoData EXCEPT !.route = req.route, !.forUser = c.user.id, !.at = c.t,
                      !.message = "ok", !.token = IssuedToken(req.route)])

\* errorHandler with the two JWT messages exchanged
ErrorHandlerSwapped(c, err) ==
  IF err.name = "JsonWebTokenError"
    THEN Respond(c, 401, Msg("Token expired"))
  ELSE IF err.name = "TokenExpiredError"
    THEN Respond(c, 401, Msg("Invalid token"))
  ELSE Respond(c, IF err.statusCode # 0 THEN err.statusCode ELSE 500,
               Msg(IF err.message # "" THEN err.message
                   ELSE "Internal Server Error"))

\* errorHandler(err, req, res, next) (errorHandler.js 7-70).  The tests of
\* err.name are made in the order of the code; the default branch builds
\* ApiResponse.error(message, statusCode) without the errors of err.
ErrorHandler(c, err) ==
  IF err.name = "SequelizeValidationError"
    THEN Respond(c, 422, [Msg("Validation Error") EXCEPT !.errors = err.errors])
  ELSE IF err.name = "SequelizeUniqueConstraintError"
    THEN Respond(c, 400, [Msg("Duplicate field value entered")
                            EXCEPT !.errors = err.errors])
  ELSE IF err.name = "JsonWebTokenError"
    THEN Respond(c, 401, Msg("Invalid token"))
  ELSE IF err.name = "TokenExpiredError"
    THEN Respond(c, 401, Msg("Token expired"))
  ELSE IF err.name = "SyntaxError" /\ err.status = 400 /\ err.body
    THEN Respond(c, 400, Msg("Invalid JSON"))
  ELSE Respond(c, IF err.statusCode # 0 THEN err.statusCode ELSE 500,
               Msg(IF err.message # "" THEN err.message
                   ELSE "Internal Server Error"))

-----------------------------------------------------------------------------
(* Rate limiters *)

WindowMs == WindowTicks * TickMs

\* express-rate-limit's MemoryStore: one hit counter per key, all counters
\* dropped when the window ends.
NewRateStore(t, windowMs) == [hits |-> EmptyMap, resetTime |-> t + windowMs]

\* MemoryStore.increment(key)
RateIncrement(rs, key) ==
  LET total == (IF key \in DOMAIN rs.hits THEN rs.hits[key] ELSE 0) + 1
  IN [store |-> [rs EXCEPT !.hits = Override(@, key, total)],
      totalHits |-> total]

\* MemoryStore.resetAll(), run by the store's interval timer
RateResetAll(rs, t, windowMs) == NewRateStore(t, windowMs)

\* authRateLimit configured with the general limit of 1000 requests
AuthRateLimitGeneral(c, req) ==
  LET inc == RateIncrement(c.authStore, req.ip)
      c1 == [c EXCEPT !.authStore = inc.store]
  IN IF inc.totalHits > 1000
       THEN Respond(c1, 429, Msg("Too many authentication attempts"))
       ELSE c1

\* authRateLimit (rateLimiter.js 29-39): keyed by req.ip, max 10 per window
AuthRateLimit(c, req) ==
  LET inc == RateIncrement(c.authStore, req.ip)
      c1 == [c EXCEPT !.authStore = inc.store]
  IN IF inc.totalHits > AUTH_MAX_REQUESTS
       THEN Respond(c1, 429, Msg("Too many authentication attempts"))
       ELSE c1

\* the filter with >= in place of >
ValidRequestsInclusive(requests, windowStart) ==
  SelectSeq(requests, LAMBDA ts : ts >= windowStart)

\* requests.filter(timestamp => timestamp > windowStart)
ValidRequests(requests, windowStart) ==
  SelectSeq(requests, LAMBDA ts : ts > windowStart)

\* userRateLimit(maxRequests, windowMs) (auth.js 166-199)
UserRateLimit(c, req) ==
  IF c.user = NoUser THEN c
  ELSE LET userId == c.user.id
           requests == IF userId \in DOMAIN c.userRequests
                         THEN c.userRequests[userId] ELSE <<>>
           validRequests == ValidRequests(requests, c.t - WindowMs)
       IN IF Len(validRequests) >= MaxRequests
            THEN Respond([c EXCEPT !.userRequests =
                            Override(@, userId, validRequests)],
                         429, Msg("Rate limit exceeded"))
            ELSE [c EXCEPT !.userRequests =
                    Override(@, userId, Append(validRequests, c.t))]

\* the switch of dynamicRateLimit (rateLimiter.js 104-120)
DynMaxRequests(user) ==
  IF user = NoUser THEN 100
  ELSE CASE user.role = "admin" -> 1000
         [] user.role = "moderator" -> 500
         [] user.role = "user" -> 200
         [] OTHER -> 100

\* keyGenerator of dynamicRateLimit
DynKey(user, ip) == IF user = NoUser THEN <<"ip", ip>> ELSE <<"user", user.id>>

\* dynamicRateLimit (rateLimiter.js 102-135): rateLimit({...}) is called
\* inside the middleware, so every request counts in a store of its own.
DynamicRateLimit(c, req) ==
  LET limiter == NewRateStore(c.t, DYN_WINDOW_MS)
      inc == RateIncrement(limiter, DynKey(c.user, req.ip))
  IN IF inc.totalHits > DynMaxRequests(c.user)
       THEN Respond(c, 429, Msg("Rate limit exceeded"))
       ELSE c

-----------------------------------------------------------------------------
(* The composer: express runs the stages in order; a stage that answers    *)
(* does not call next.                                                     *)

Stage(s, c, req) ==
  CASE s.kind = "apiCache" -> CacheMiddleware(s, c, req)
    [] s.kind = "optionalAuth" -> OptionalAuth(c, req)
    [] s.kind = "authenticate" -> Authenticate(c, req)
    [] s.kind = "authorize" -> Authorize(s, c, req)
    [] s.kind = "ownerOrAdmin" -> OwnerOrAdmin(s, c, req)
    [] s.kind = "requireEmailVerification" -> RequireEmailVerification(c, req)
    [] s.kind = "requirePermission" -> RequirePermission(s, c, req)
    [] s.kind = "validate" -> Validate(s, c, req)
    [] s.kind = "invalidateCache" -> InvalidateCache(s, c, req)
    [] s.kind = "authRateLimit" -> AuthRateLimit(c, req)
    [] s.kind = "userRateLimit" -> UserRateLimit(c, req)
    [] s.kind = "dynamicRateLimit" -> DynamicRateLimit(c, req)
    [] s.kind = "handler" -> Handler(c, req)
    [] OTHER -> c

RECURSIVE RunStack(_, _, _, _)
\* express runs the stages in order until one answers; what a stage throws
\* is passed to the error handler
RunStack(stack, i, c, req) ==
  IF c.sent THEN c
  ELSE IF c.thrown # NoErr THEN GlobalErrorHandler(c)
  ELSE IF i > Len(stack) THEN c
  ELSE RunStack(stack, i + 1,
                Stage(stack[i], [c EXCEPT !.ran = Append(@, stack[i].kind)], req),
                req)

\* router.use(common.api), then the route's own stack and its controller
FullStack(route) == apiStack \o Routes[route].stack \o <<StHandler>>

-----------------------------------------------------------------------------
(* Inputs *)

FarExp == MaxTime + TickMs

SoonExp == TickMs

\* users 1 and 2 exist, user 3 does not
Headers ==
  {NoHeader, Bearer(1, FarExp, "ok"), Bearer(2, FarExp, "ok"),
   Bearer(1, FarExp, "bad")}

AuthHeaders ==
  Headers \cup
  {BasicHeader, Bearer(3, FarExp, "ok"), Bearer(2, SoonExp, "ok")}

Queries == {<<>>}

Ips == {"ip1", "ip2"}

ApiRoutes ==
  {"getProducts", "getCategories", "getOrders", "createProduct",
   "deleteProduct"}

AuthRoutes == {"login", "register"}

NoHeld == [token |-> "none", at |-> 0]

\* rt is the refresh token presented, bearer the received token sent, params the route parameters and fault
\* the operation of the cache store that throws during the request
MkReq(route, hdr, query, data, db, ip) ==
  [route |-> route, hdr |-> hdr, query |-> query, data |-> data, db |-> db,
   ip |-> ip, rt |-> 0, params |-> EmptyMap, fault |-> "none", roles |-> {},
   param |-> "", bearer |-> NoHeld, err |-> NoErr, arrivedCold |-> FALSE,
   method |-> "", path |-> <<>>]

-----------------------------------------------------------------------------
(* What is recorded of a processed request *)

HasStage(stack, kind) == \E i \in 1..Len(stack) : stack[i].kind = kind

\* the request carries a correctly signed, unexpired token of an active user
ValidToken(req, t) ==
  /\ req.hdr.kind = "bearer"
  /\ req.hdr.sig = "ok"
  /\ t < req.hdr.exp
  /\ req.hdr.sub \in DOMAIN users
  /\ users[req.hdr.sub].status = "active"

\* the token is correctly signed and unexpired, whoever its subject is
SignedToken(req, t) ==
  req.hdr.kind = "bearer" /\ req.hdr.sig = "ok" /\ t < req.hdr.exp

SubjectStatus(req) ==
  IF req.hdr.kind # "bearer" THEN "none"
  ELSE IF req.hdr.sub \in DOMAIN users THEN users[req.hdr.sub].status
  ELSE "missing"

\* RefreshToken.prototype.isExpired (models/RefreshToken.js)
RtIsExpired(row, t) == t > row.expiresAt

\* RefreshToken.prototype.isValid
RtIsValid(row, t) == ~row.isRevoked /\ ~RtIsExpired(row, t)

\* what the table says of the refresh token a request presents
RtState(req) ==
  IF req.rt = 0 THEN "none"
  ELSE IF req.rt \notin DOMAIN refreshTokens THEN "unknown"
  ELSE IF refreshTokens[req.rt].isRevoked THEN "revoked"
  ELSE IF RtIsExpired(refreshTokens[req.rt], now) THEN "expired"
  ELSE "valid"

\* no entry that could still be served is stored under a key of the request
Live(key) ==
  key \in DOMAIN cache /\ now - cache[key].timestamp <= cache[key].ttl

Cold(req) ==
  /\ req.route \in DOMAIN Routes
  /\ ~Live(ApiKey(Routes[req.route], req.query, "v1"))
  /\ ~Live(ApiKey(Routes[req.route], req.query, "route"))

NoLast ==
  [route |-> "none", hdrKind |-> "none",
   validToken |-> FALSE, signedToken |-> FALSE, subjStatus |-> "none",
   dbOk |-> TRUE, user |-> NoUser, status |-> 0, body |-> NoData,
   xcache |-> "none", ran |-> <<>>, handlerRan |-> FALSE, hitAt |-> <<>>,
   stored |-> {}, purged |-> {}, t |-> 0, ip |-> "none", data |-> "none",
   cold |-> FALSE, prior |-> 0, nth |-> 0, rtState |-> "none", roles |-> {},
   params |-> EmptyMap, param |-> "", bearer |-> NoHeld,
   responses |-> 0, verifies |-> <<>>, hdr |-> NoHeader, err |-> NoErr,
   fault |-> "none", securityLog |-> <<>>, arrivedCold |-> FALSE,
   method |-> "", path |-> <<>>,
   first |-> [known |-> FALSE, t |-> 0, body |-> NoData]]

Summary2(c, req, prior, nth) ==
  [route |-> req.route, hdrKind |-> req.hdr.kind,
   validToken |-> ValidToken(req, now) /\ req.db = "ok",
   signedToken |-> SignedToken(req, now),
   subjStatus |-> SubjectStatus(req), dbOk |-> req.db = "ok",
   user |-> c.user, status |-> c.status, body |-> c.body,
   xcache |-> c.xcache, ran |-> c.ran, handlerRan |-> c.handlerRan,
   hitAt |-> c.hitAt, stored |-> c.stored, purged |-> c.purged,
   t |-> now, ip |-> req.ip, data |-> req.data,
   cold |-> Cold(req), prior |-> prior, nth |-> nth, rtState |-> RtState(req),
   roles |-> req.roles, params |-> req.params, param |-> req.param,
   bearer |-> req.bearer, responses |-> c.responses, verifies |-> c.verifies,
   hdr |-> req.hdr, err |-> req.err, fault |-> req.fault,
   securityLog |-> c.securityLog, arrivedCold |-> req.arrivedCold,
   method |-> req.method, path |-> req.path,
   first |-> IF req.route \in DOMAIN firstMiss
               THEN [known |-> TRUE, t |-> firstMiss[req.route].t,
                     body |-> firstMiss[req.route].body]
               ELSE [known |-> FALSE, t |-> 0, body |-> NoData]]

Summary(c, req) == Summary2(c, req, 0, 0)

-----------------------------------------------------------------------------
(* Initial state: the process has just started *)

Init ==
  /\ cache = EmptyMap
  /\ timers = EmptyMap
  /\ now = 0
  /\ users = [i \in {1, 2, 4} |->
               [role |-> CASE i = 1 -> "admin" [] i = 2 -> "user"
                           [] OTHER -> "moderator",
                status |-> "active", isEmailVerified |-> i # 2]]
  /\ last = NoLast
  /\ lastGet = [hit |-> FALSE, key |-> <<>>, data |-> NoData,
                present |-> FALSE, age |-> 0, ttl |-> 0, timerDue |-> FALSE]
  /\ userRequests = EmptyMap
  /\ admitted = EmptyMap
  /\ authStore = NewRateStore(0, AUTH_WINDOW_MS)
  /\ loginCount = EmptyMap
  /\ dynCount = NewRateStore(0, DYN_WINDOW_MS)
  /\ win = EmptyMap
  /\ firstMiss = EmptyMap
  /\ refreshTokens = EmptyMap
  /\ held = {}
  /\ inflight = EmptyMap

-----------------------------------------------------------------------------
(* Actions shared by the specifications *)

\* no request is being answered
Idle == last = NoLast

\* the response has been flushed: req and res of the request are dropped
Finish ==
  /\ last # NoLast
  /\ last' = NoLast
  /\ UNCHANGED <<cache, timers, now, users, lastGet, userRequests, admitted,
                 authStore, loginCount, dynCount, win, firstMiss,
                 refreshTokens, held, inflight>>

\* the clock advances
Tick ==
  /\ Idle
  /\ now < MaxTime
  /\ now' = now + TickMs
  /\ UNCHANGED <<cache, timers, users, last, lastGet, userRequests, admitted,
                 authStore, loginCount, dynCount, win, firstMiss,
                 refreshTokens, held, inflight>>

\* the timeout armed by MemoryCache.set fires: this.delete(key)
TimerFire(key) ==
  /\ Idle
  /\ key \in DOMAIN timers
  /\ now >= timers[key]
  /\ cache' = CacheDelete(Store, key).cache
  /\ timers' = CacheDelete(Store, key).timers
  /\ UNCHANGED <<now, users, last, lastGet, userRequests, admitted,
                 authStore, loginCount, dynCount, win, firstMiss,
                 refreshTokens, held, inflight>>

\* an account's status is changed in the User table
SetStatus(u, st) ==
  /\ Idle
  /\ u \in DOMAIN users
  /\ users[u].status # st
  /\ users' = [users EXCEPT ![u].status = st]
  /\ UNCHANGED <<cache, timers, now, last, lastGet, userRequests, admitted,
                 authStore, loginCount, dynCount, win, firstMiss,
                 refreshTokens, held, inflight>>

-----------------------------------------------------------------------------
(* The v1 API: one request runs through its declared stack *)

\* history of the anonymous GET that filled a cold cache, per route; any
\* purge by an invalidating request forgets it
NextFirstMiss(c, req) ==
  IF c.purged # {} THEN EmptyMap
  ELSE IF Routes[req.route].method = "GET" /\ req.hdr = NoHeader
          /\ Cold(req) /\ c.status = 200
    THEN Override(firstMiss, req.route, [t |-> now, body |-> c.body])
  ELSE firstMiss

ApiRequest(req) ==
  LET stack == FullStack(req.route)
      c == RunStack(stack, 1, [InitCtx(now) EXCEPT !.fault = req.fault], req)
  IN /\ Idle
     /\ cache' = c.store.cache
     /\ timers' = c.store.timers
     /\ last' = Summary(c, req)
     /\ firstMiss' = NextFirstMiss(c, req)
     /\ UNCHANGED <<now, users, lastGet, userRequests, admitted, authStore,
                    loginCount, dynCount, win,
                 refreshTokens, held, inflight>>

\* a GET carries a query of Queries, all of which satisfy the schemas; the
\* other methods carry a body that is valid, invalid or empty
Request ==
  \E route \in ApiRoutes, hdr \in Headers, query \in Queries,
     data \in {"valid", "invalid", "empty"} :
    /\ Routes[route].method = "GET" => data = "valid"
    /\ ApiRequest(MkReq(route, hdr, query, data, "ok", "ip1"))

Next ==
  \/ Request
  \/ Finish
  \/ Tick
  \/ \E key \in DOMAIN timers : TimerFire(key)

Spec == Init /\ [][Next]_vars

-----------------------------------------------------------------------------
(* Properties of the v1 API (specification Spec) *)

Answered == last # NoLast

IsGet(route) == Routes[route].method = "GET"

RequiresAuth(route) == HasStage(Routes[route].stack, "authenticate")

Cacheable(route) == IsGet(route) /\ HasStage(Routes[route].stack, "apiCache")

\* the ttl the route declares for its responses, in seconds
RouteTtl(route) ==
  LET i == CHOOSE j \in 1..Len(Routes[route].stack) :
             Routes[route].stack[j].kind = "apiCache"
  IN Routes[route].stack[i].ttl

ProductMutations == {"createProduct", "updateProduct", "deleteProduct"}

ProductGets == {"getProducts", "searchProducts"}

\* C1: on a route whose stack contains authenticate, a request without a
\* valid Bearer token is answered 401 and never 200 with the route's payload,
\* whatever requests came before.
C1_Unauthenticated401 ==
  (Answered /\ RequiresAuth(last.route) /\ ~last.validToken)
    => (last.status = 401 /\ last.body.route # last.route)

\* C2: a response produced while req.user is set is never written to the
\* shared cache (no cache is created with cacheAuthenticated), so no entry
\* holds a payload produced for an authenticated requester.
C2_AuthenticatedNotCached ==
  /\ (Answered /\ last.handlerRan /\ last.user # NoUser) => last.stored = {}
  /\ \A k \in DOMAIN cache : cache[k].data.forUser = 0

C6_HitShortCircuits ==
  (Answered /\ last.hitAt # <<>>)
    => /\ ~last.handlerRan
       /\ last.ran[Len(last.ran)] = "apiCache"
       /\ last.stored = {}
       /\ last.xcache = "HIT"

-----------------------------------------------------------------------------
(* MemoryCache used directly (specification SpecCache) *)

McKeys ==
  {ApiKey(Routes.getProducts, <<>>, "v1"), ApiKey(Routes.getCategories, <<>>, "v1")}

McValues == {Msg("a"), Msg("b")}

\* ttl arguments, in seconds
McTtls == {0} \cup {k * (TickMs \div 1000) : k \in 1..MaxTtlTicks}

McSet(key, value, ttl) ==
  /\ cache' = CacheSet(Store, key, value, ttl, now).cache
  /\ timers' = CacheSet(Store, key, value, ttl, now).timers
  /\ UNCHANGED <<now, users, last, lastGet, userRequests, admitted,
                 authStore, loginCount, dynCount, win, firstMiss,
                 refreshTokens, held, inflight>>

McGet(key) ==
  LET g == CacheGet(Store, key, now)
      present == key \in DOMAIN cache
  IN /\ cache' = g.store.cache
     /\ timers' = g.store.timers
     /\ lastGet' = [hit |-> g.hit, key |-> key, data |-> g.data,
                    present |-> present,
                    age |-> IF present THEN now - cache[key].timestamp ELSE 0,
                    ttl |-> IF present THEN cache[key].ttl ELSE 0,
                    timerDue |-> key \in DOMAIN timers /\ now >= timers[key]]
     /\ UNCHANGED <<now, users, last, userRequests, admitted,
                    authStore, loginCount, dynCount, win, firstMiss,
                 refreshTokens, held, inflight>>

McDelete(key) ==
  /\ cache' = CacheDelete(Store, key).cache
  /\ timers' = CacheDelete(Store, key).timers
  /\ UNCHANGED <<now, users, last, lastGet, userRequests, admitted,
                 authStore, loginCount, dynCount, win, firstMiss,
                 refreshTokens, held, inflight>>

McClear ==
  /\ cache' = CacheClear(Store).cache
  /\ timers' = CacheClear(Store).timers
  /\ UNCHANGED <<now, users, last, lastGet, userRequests, admitted,
                 authStore, loginCount, dynCount, win, firstMiss,
                 refreshTokens, held, inflight>>

NextCache ==
  \/ \E key \in McKeys, value \in McValues, ttl \in McTtls : McSet(key, value, ttl)
  \/ \E key \in McKeys : McGet(key)
  \/ \E key \in McKeys : McDelete(key)
  \/ McClear
  \/ Tick
  \/ \E key \in DOMAIN timers : TimerFire(key)

SpecCache == Init /\ [][NextCache]_vars

\* C3: get(key) never returns a payload whose age (now - timestamp) exceeds
\* its ttl, whether or not the expiry timer of the entry has fired.
C3_NeverServedPastTtl ==
  lastGet.hit => lastGet.age <= lastGet.ttl

\* C3 witness: get was called on an entry older than its ttl whose timer was
\* due but had not fired, and returned null
C3_Witness ==
  /\ lastGet.present /\ lastGet.age > lastGet.ttl /\ lastGet.timerDue
  /\ ~lastGet.hit /\ lastGet.key \notin DOMAIN cache

-----------------------------------------------------------------------------
(* Authentication against a changing User table (specification SpecAuth) *)

AuthSpecRoutes == {"getOrders", "getProducts"}

AuthRequestStep ==
  \E route \in AuthSpecRoutes, hdr \in AuthHeaders, db \in {"ok", "down"} :
    ApiRequest(MkReq(route, hdr, <<>>, "valid", db, "ip1"))

NextAuth ==
  \/ AuthRequestStep
  \/ Finish
  \/ Tick
  \/ \E key \in DOMAIN timers : TimerFire(key)
  \/ \E st \in USER_STATUS : SetStatus(2, st)

SpecAuth == Init /\ [][NextAuth]_vars

\* C10: req.user is only set to a principal that is active at the time of
\* the request; for a signed, unexpired token whose subject is missing or not
\* active, authenticate answers 401 without calling next and optionalAuth
\* leaves the request anonymous.
C10_OnlyActivePrincipals ==
  Answered =>
    /\ last.user # NoUser
         => (last.subjStatus = "active" /\ last.user.status = "active")
    /\ (last.signedToken /\ last.subjStatus # "active")
         => /\ last.user = NoUser
            /\ (\E i \in 1..Len(last.ran) : last.ran[i] = "authenticate")
                 => /\ last.status = 401
                    /\ ~last.handlerRan
                    /\ last.ran[Len(last.ran)] = "authenticate"

\* C10 witness: a suspended user's signed token reached authenticate
C10_Witness ==
  /\ Answered /\ last.signedToken /\ last.subjStatus = "suspended"
  /\ last.ran # <<>> /\ last.ran[Len(last.ran)] = "authenticate"
  /\ last.status = 401

-----------------------------------------------------------------------------
(* userRateLimit behind authenticate (specification SpecUserRL) *)

Count(f, k) == IF k \in DOMAIN f THEN f[k] ELSE 0

History(f, k) == IF k \in DOMAIN f THEN f[k] ELSE <<>>

\* history: the fixed window of windowMs a request of user u at time t falls
\* in, a window being opened by the first request after the previous one has
\* elapsed
WindowOf(u, t) ==
  IF u \in DOMAIN win /\ t < win[u].start + WindowMs
    THEN [start |-> win[u].start, count |-> win[u].count + 1]
    ELSE [start |-> t, count |-> 1]

UserHeaders == {NoHeader, Bearer(1, FarExp, "ok"), Bearer(2, FarExp, "ok")}

UserRLRequest(hdr) ==
  LET req == MkReq("protected", hdr, <<>>, "valid", "ok", "ip1")
      c == RunStack(protectedStack \o <<StHandler>>, 1, InitCtx(now), req)
      limited == c.user # NoUser
      u == c.user.id
      prior == IF limited
                 THEN Len(SelectSeq(History(admitted, u),
                                    LAMBDA ts : ts > now - WindowMs))
                 ELSE 0
      w == WindowOf(u, now)
  IN /\ Idle
     /\ limited => w.count <= MaxRequests + AttemptCap
     /\ userRequests' = c.userRequests
     /\ win' = IF limited THEN Override(win, u, w) ELSE win
     /\ admitted' = IF limited /\ c.handlerRan
                      THEN Override(admitted, u, Append(History(admitted, u), now))
                      ELSE admitted
     /\ last' = Summary2(c, req, prior, IF limited THEN w.count ELSE 0)
     /\ UNCHANGED <<cache, timers, now, users, lastGet, authStore, loginCount,
                    dynCount, firstMiss,
                 refreshTokens, held, inflight>>

NextUserRL ==
  \/ \E hdr \in UserHeaders : UserRLRequest(hdr)
  \/ Finish
  \/ Tick

SpecUserRL == Init /\ [][NextUserRL]_vars

Limited == Answered /\ last.route = "protected" /\ last.user # NoUser

Passed == last.status = 200 /\ last.handlerRan

Rejected == last.status = 429 /\ ~last.handlerRan

-----------------------------------------------------------------------------
(* The auth routes behind authRateLimit (specification SpecAuthRL) *)

LoginRequest(route, ip, data) ==
  LET req == MkReq(route, NoHeader, <<>>, data, "ok", ip)
      c == RunStack(FullStack(route), 1, InitCtx(now), req)
      n == Count(loginCount, ip) + 1
  IN /\ Idle
     /\ now < authStore.resetTime
     /\ Count(authStore.hits, ip) < AUTH_MAX_REQUESTS + AttemptCap
     /\ cache' = c.store.cache
     /\ timers' = c.store.timers
     /\ authStore' = c.authStore
     /\ loginCount' = IF route = "login" THEN Override(loginCount, ip, n)
                                         ELSE loginCount
     /\ last' = Summary2(c, req, 0, IF route = "login" THEN n ELSE 0)
     /\ UNCHANGED <<now, users, lastGet, userRequests, admitted, dynCount,
                    win, firstMiss,
                 refreshTokens, held, inflight>>

\* the interval timer of the limiter's store: resetAll() every windowMs
AuthWindowReset ==
  /\ Idle
  /\ now >= authStore.resetTime
  /\ authStore' = RateResetAll(authStore, now, AUTH_WINDOW_MS)
  /\ loginCount' = EmptyMap
  /\ UNCHANGED <<cache, timers, now, users, last, lastGet, userRequests,
                 admitted, dynCount, win, firstMiss,
                 refreshTokens, held, inflight>>

NextAuthRL ==
  \/ \E route \in AuthRoutes, ip \in Ips, data \in {"valid", "invalid"} :
       LoginRequest(route, ip, data)
  \/ AuthWindowReset
  \/ Finish
  \/ Tick

SpecAuthRL == Init /\ [][NextAuthRL]_vars

\* C8: the 11th and every later login request of one IP within one window
\* of 15 minutes is answered 429 'Too many authentication attempts' and the
\* login handler does not run; requests with an invalid body count too.
C8_LoginLimited ==
  (Answered /\ last.route = "login" /\ last.nth > AUTH_MAX_REQUESTS) =>
    /\ last.status = 429
    /\ last.body = Msg("Too many authentication attempts")
    /\ ~last.handlerRan
    /\ last.ran[Len(last.ran)] = "authRateLimit"

\* C8 witness: the 11th login request of an IP in a window, its body valid,
\* is refused by the limiter
C8_Witness ==
  /\ Answered /\ last.route = "login" /\ last.nth = AUTH_MAX_REQUESTS + 1
  /\ last.data = "valid" /\ last.status = 429
  /\ Count(authStore.hits, last.ip) = AUTH_MAX_REQUESTS + 1

-----------------------------------------------------------------------------
(* dynamicRateLimit behind optionalAuth (specification SpecDyn) *)

dynamicStack == <<StPass("optionalAuth"), StPass("dynamicRateLimit"), StHandler>>

DynHeaders == {NoHeader, Bearer(2, FarExp, "ok")}

\* dynCount is history: the counters one limiter shared by all requests
\* would hold
DynRequest(hdr) ==
  LET req == MkReq("dynamic", hdr, <<>>, "valid", "ok", "ip1")
      c == RunStack(dynamicStack, 1, InitCtx(now), req)
      inc == RateIncrement(dynCount, DynKey(c.user, req.ip))
  IN /\ Idle
     /\ now < dynCount.resetTime
     /\ inc.totalHits <= DynCap
     /\ dynCount' = inc.store
     /\ last' = Summary2(c, req, 0, inc.totalHits)
     /\ UNCHANGED <<cache, timers, now, users, lastGet, userRequests,
                    admitted, authStore, loginCount, win, firstMiss,
                 refreshTokens, held, inflight>>

DynWindowReset ==
  /\ Idle
  /\ now >= dynCount.resetTime
  /\ dynCount' = RateResetAll(dynCount, now, DYN_WINDOW_MS)
  /\ UNCHANGED <<cache, timers, now, users, last, lastGet, userRequests,
                 admitted, authStore, loginCount, win, firstMiss,
                 refreshTokens, held, inflight>>

NextDyn ==
  \/ \E hdr \in DynHeaders : DynRequest(hdr)
  \/ DynWindowReset
  \/ Finish
  \/ Tick

SpecDyn == Init /\ [][NextDyn]_vars

\* C9: a principal's request beyond its role's limit (admin 1000, moderator
\* 500, user 200, unauthenticated 100) within one window of 15 minutes is
\* answered 429 and the handler does not run.
C9_RoleScaledLimit ==
  (Answered /\ last.route = "dynamic" /\ last.nth > DynMaxRequests(last.user))
    => (last.status = 429 /\ ~last.handlerRan)

-----------------------------------------------------------------------------
(* Refresh tokens: the RefreshToken table and POST /auth/refresh-token      *)
(* (specification SpecRefresh)                                             *)

RtIds == {1, 2}

\* RefreshToken.createToken(userId, token, expiresAt); token is unique
RtCreate(tok, userId, expiresAt) ==
  /\ Idle
  /\ tok \notin DOMAIN refreshTokens
  /\ refreshTokens' = Override(refreshTokens, tok,
                               [userId |-> userId, expiresAt |-> expiresAt,
                                isRevoked |-> FALSE])
  /\ UNCHANGED <<cache, timers, now, users, last, lastGet, userRequests,
                 admitted, authStore, loginCount, dynCount, win, firstMiss,
                 held, inflight>>

\* RefreshToken.prototype.revoke
RtRevoke(tok) ==
  /\ Idle
  /\ tok \in DOMAIN refreshTokens
  /\ ~refreshTokens[tok].isRevoked
  /\ refreshTokens' = [refreshTokens EXCEPT ![tok].isRevoked = TRUE]
  /\ UNCHANGED <<cache, timers, now, users, last, lastGet, userRequests,
                 admitted, authStore, loginCount, dynCount, win, firstMiss,
                 held, inflight>>

\* RefreshToken.revokeAllUserTokens(userId)
RtRevokeAllUserTokens(userId) ==
  /\ Idle
  /\ \E tok \in DOMAIN refreshTokens :
       refreshTokens[tok].userId = userId /\ ~refreshTokens[tok].isRevoked
  /\ refreshTokens' =
       [tok \in DOMAIN refreshTokens |->
          IF refreshTokens[tok].userId = userId
            THEN [refreshTokens[tok] EXCEPT !.isRevoked = TRUE]
            ELSE refreshTokens[tok]]
  /\ UNCHANGED <<cache, timers, now, users, last, lastGet, userRequests,
                 admitted, authStore, loginCount, dynCount, win, firstMiss,
                 held, inflight>>

\* RefreshToken.cleanupExpiredTokens: destroy where expiresAt < now
RtCleanupExpiredTokens ==
  /\ Idle
  /\ \E tok \in DOMAIN refreshTokens : refreshTokens[tok].expiresAt < now
  /\ refreshTokens' =
       Restrict(refreshTokens,
                {tok \in DOMAIN refreshTokens : ~(refreshTokens[tok].expiresAt < now)})
  /\ UNCHANGED <<cache, timers, now, users, last, lastGet, userRequests,
                 admitted, authStore, loginCount, dynCount, win, firstMiss,
                 held, inflight>>

\* POST /api/v1/auth/refresh-token presenting refresh token tok
RefreshRequest(tok) ==
  LET req == [MkReq("refreshToken", NoHeader, <<>>, "valid", "ok", "ip1")
                EXCEPT !.rt = tok]
      c == RunStack(FullStack("refreshToken"), 1, InitCtx(now), req)
  IN /\ Idle
     /\ now < authStore.resetTime
     /\ Count(authStore.hits, req.ip) < AUTH_MAX_REQUESTS + AttemptCap
     /\ cache' = c.store.cache
     /\ timers' = c.store.timers
     /\ authStore' = c.authStore
     /\ last' = Summary(c, req)
     /\ held' = IF c.status = 200 /\ c.body.token # "none"
                  THEN held \cup {[token |-> c.body.token, at |-> now]}
                  ELSE held
     /\ UNCHANGED <<now, users, lastGet, userRequests, admitted, loginCount,
                    dynCount, win, firstMiss, refreshTokens, inflight>>

NextRefresh ==
  \/ \E tok \in RtIds, k \in 1..MaxTtlTicks : RtCreate(tok, 2, now + k * TickMs)
  \/ \E tok \in RtIds : RtRevoke(tok)
  \/ RtRevokeAllUserTokens(2)
  \/ RtCleanupExpiredTokens
  \/ \E tok \in RtIds : RefreshRequest(tok)
  \/ AuthWindowReset
  \/ Finish
  \/ Tick

SpecRefresh == Init /\ [][NextRefresh]_vars

\* C11: a request to POST /auth/refresh-token that presents a revoked or an
\* expired refresh token is not answered with success and yields no access
\* token.
C11_RevokedOrExpiredRefused ==
  (Answered /\ last.route = "refreshToken"
     /\ last.rtState \in {"revoked", "expired"})
    => (last.status # 200 /\ last.body.token = "none")

-----------------------------------------------------------------------------
(* authorize and the routes declared with adminOnly (specification SpecAuthz) *)

RoleHeaders ==
  {NoHeader, Bearer(1, FarExp, "ok"), Bearer(2, FarExp, "ok"),
   Bearer(4, FarExp, "ok")}

RoleSets == {{"admin"}, {"admin", "moderator"}, {"user"}}

AdminOnlyRoutes ==
  {r \in DOMAIN Routes :
     \E i \in 1..Len(Routes[r].stack) : Routes[r].stack[i] = adminOnly}

\* authorize(...roles) applied to the principal optionalAuth has found
authorizeStack(roles) ==
  <<StPass("optionalAuth"), StAuthorize(roles), StHandler>>

AuthorizeRequest(hdr, roles) ==
  LET req == [MkReq("authorize", hdr, <<>>, "valid", "ok", "ip1")
                EXCEPT !.roles = roles]
      c == RunStack(authorizeStack(roles), 1, InitCtx(now), req)
  IN /\ Idle
     /\ last' = Summary(c, req)
     /\ UNCHANGED <<cache, timers, now, users, lastGet, userRequests,
                    admitted, authStore, loginCount, dynCount, win, firstMiss,
                    refreshTokens, held, inflight>>

AdminRouteRequest ==
  \E route \in AdminOnlyRoutes, hdr \in RoleHeaders, data \in {"valid", "invalid"} :
    ApiRequest(MkReq(route, hdr, <<>>, data, "ok", "ip1"))

NextAuthz ==
  \/ \E hdr \in RoleHeaders, roles \in RoleSets : AuthorizeRequest(hdr, roles)
  \/ AdminRouteRequest
  \/ Finish
  \/ Tick
  \/ \E key \in DOMAIN timers : TimerFire(key)

SpecAuthz == Init /\ [][NextAuthz]_vars

ReachedAuthorize == \E i \in 1..Len(last.ran) : last.ran[i] = "authorize"

\* C12: authorize(...roles) decides on (principal role, required roles)
\* alone: with a principal the request proceeds iff its role is among the
\* required ones and is answered 403 otherwise, without a principal it is
\* answered 401; on a route declared with adminOnly the handler executes
\* only for an admin, and for every admin whose request reaches authorize
\* with valid data.
C12_AuthorizeDecision ==
  /\ (Answered /\ last.route = "authorize")
       => /\ last.user = NoUser => (last.status = 401 /\ ~last.handlerRan)
          /\ (last.user # NoUser /\ last.user.role \in last.roles)
               => (last.status = 200 /\ last.handlerRan)
          /\ (last.user # NoUser /\ last.user.role \notin last.roles)
               => (last.status = 403 /\ ~last.handlerRan)
  /\ (Answered /\ last.route \in AdminOnlyRoutes)
       => /\ last.handlerRan => last.user.role = "admin"
          /\ (ReachedAuthorize /\ last.user.role # "admin")
               => (last.status = 403 /\ last.ran[Len(last.ran)] = "authorize")
          /\ (ReachedAuthorize /\ last.user.role = "admin" /\ last.data = "valid")
               => (last.handlerRan /\ last.status = 200)

\* C12 witness: a moderator is refused on a route declared with adminOnly
C12_Witness ==
  /\ Answered /\ last.route \in AdminOnlyRoutes /\ last.user.role = "moderator"
  /\ last.status = 403 /\ ~last.handlerRan

-----------------------------------------------------------------------------
(* ownerOrAdmin (specification SpecOwner) *)

ParamNames == {"id", "userId"}

ParamValues == {"1", "2", "4", "02"}

ownerStack(resourceIdParam) ==
  <<StPass("optionalAuth"), StOwnerOrAdmin(resourceIdParam), StHandler>>

OwnerRequest(hdr, name, value) ==
  LET req == [MkReq("owner", hdr, <<>>, "valid", "ok", "ip1")
                EXCEPT !.params = name :> value, !.param = name]
      c == RunStack(ownerStack(name), 1, InitCtx(now), req)
  IN /\ Idle
     /\ last' = Summary(c, req)
     /\ UNCHANGED <<cache, timers, now, users, lastGet, userRequests,
                    admitted, authStore, loginCount, dynCount, win, firstMiss,
                    refreshTokens, held, inflight>>

NextOwner ==
  \/ \E hdr \in RoleHeaders, name \in ParamNames, value \in ParamValues :
       OwnerRequest(hdr, name, value)
  \/ \E st \in USER_STATUS : SetStatus(2, st)
  \/ Finish
  \/ Tick

SpecOwner == Init /\ [][NextOwner]_vars

\* the principal owns the resource the configured route parameter addresses
IsOwner == ToNumber(last.params[last.param]) = last.user.id

\* C13: ownerOrAdmin(resourceIdParam) lets an authenticated request pass
\* exactly when the principal is an admin or its id equals the route
\* parameter named resourceIdParam, whatever that name is; every other
\* authenticated request is answered 403.
C13_OwnerOrAdmin ==
  (Answered /\ last.route = "owner" /\ last.user # NoUser)
    => /\ (last.user.role = "admin" \/ IsOwner)
            => (last.handlerRan /\ last.status = 200)
       /\ ~(last.user.role = "admin" \/ IsOwner)
            => (last.status = 403 /\ ~last.handlerRan)

-----------------------------------------------------------------------------
(* A client session: login, calls of a protected route with the token      *)
(* received, refresh (specification SpecSession)                           *)

\* the Authorization header a client builds from a token it received: the
\* strings the mock controllers hand out are not JWTs, jwt.verify finds them
\* malformed
ParseToken(str) ==
  IF str \in {"mock-jwt-token", "new-mock-jwt-token"}
    THEN Bearer(0, 0, "malformed")
    ELSE NoHeader

SessionLogin ==
  LET req == MkReq("login", NoHeader, <<>>, "valid", "ok", "ip1")
      c == RunStack(FullStack("login"), 1, InitCtx(now), req)
  IN /\ Idle
     /\ now < authStore.resetTime
     /\ Count(authStore.hits, req.ip) < AUTH_MAX_REQUESTS + AttemptCap
     /\ cache' = c.store.cache
     /\ timers' = c.store.timers
     /\ authStore' = c.authStore
     /\ last' = Summary(c, req)
     /\ held' = IF c.status = 200 /\ c.body.token # "none"
                  THEN held \cup {[token |-> c.body.token, at |-> now]}
                  ELSE held
     /\ UNCHANGED <<now, users, lastGet, userRequests, admitted, loginCount,
                    dynCount, win, firstMiss, refreshTokens, inflight>>

\* GET /api/v1/orders with a token received earlier
SessionCall(h) ==
  /\ h \in held
  /\ ApiRequest([MkReq("getOrders", ParseToken(h.token), <<>>, "valid", "ok", "ip1")
                   EXCEPT !.bearer = h])

NextSession ==
  \/ SessionLogin
  \/ \E h \in held : SessionCall(h)
  \/ RtCreate(1, 2, now + MaxTtlTicks * TickMs)
  \/ RefreshRequest(1)
  \/ AuthWindowReset
  \/ Finish
  \/ Tick

SpecSession == Init /\ [][NextSession]_vars

\* C14: a protected route called with the access token that login (or the
\* refresh endpoint, for a valid refresh token) returned answers 200 while
\* less than the access-token TTL has passed since the token was issued, and
\* 401 'Token expired' afterwards.
C14_SessionScenario ==
  (Answered /\ last.route = "getOrders" /\ last.bearer # NoHeld)
    => /\ last.t - last.bearer.at < JWT_EXPIRE_MS => last.status = 200
       /\ last.t - last.bearer.at > JWT_EXPIRE_MS
            => (last.status = 401 /\ last.body = Msg("Token expired"))

-----------------------------------------------------------------------------
(* The declared stacks that hold an authorization stage (specification     *)
(* SpecStacks)                                                             *)

AuthzKinds == {"authorize", "ownerOrAdmin", "requirePermission"}

NamedStacks ==
  [protected |-> protectedStack, admin |-> adminStack, upload |-> uploadStack]

\* every stack declared for a route or exported by middlewares/index.js
DeclaredStacks ==
  {Routes[r].stack : r \in DOMAIN Routes}
    \cup {NamedStacks[n] : n \in DOMAIN NamedStacks}

AuthzRoutes ==
  {r \in DOMAIN Routes :
     \E i \in 1..Len(Routes[r].stack) : Routes[r].stack[i].kind \in AuthzKinds}

AuthzRouteRequest ==
  \E route \in AuthzRoutes, hdr \in Headers \cup {Bearer(4, FarExp, "ok")},
     data \in {"valid", "invalid"} :
    ApiRequest(MkReq(route, hdr, <<>>, data, "ok", "ip1"))

\* a request through one of the exported stacks, followed by a controller
NamedStackRequest(n, hdr) ==
  LET req == MkReq(n, hdr, <<>>, "valid", "ok", "ip1")
      c == RunStack(NamedStacks[n] \o <<StHandler>>, 1, InitCtx(now), req)
  IN /\ Idle
     /\ cache' = c.store.cache
     /\ timers' = c.store.timers
     /\ userRequests' = c.userRequests
     /\ last' = Summary(c, req)
     /\ UNCHANGED <<now, users, lastGet, admitted, authStore, loginCount,
                    dynCount, win, firstMiss, refreshTokens, held, inflight>>

NextStacks ==
  \/ AuthzRouteRequest
  \/ \E n \in DOMAIN NamedStacks, hdr \in Headers : NamedStackRequest(n, hdr)
  \/ \E st \in USER_STATUS : SetStatus(2, st)
  \/ Finish
  \/ Tick
  \/ \E key \in DOMAIN timers : TimerFire(key)

SpecStacks == Init /\ [][NextStacks]_vars

\* C15: in every declared stack each authorization stage comes after
\* authenticate, and whenever an authorization stage has executed for a
\* request, authenticate executed before it for that request and set
\* req.user from a valid token.
C15_AuthenticateBeforeAuthorize ==
  /\ \A stack \in DeclaredStacks : \A i \in 1..Len(stack) :
       stack[i].kind \in AuthzKinds
         => \E j \in 1..(i - 1) : stack[j].kind = "authenticate"
  /\ Answered
       => \A i \in 1..Len(last.ran) :
            last.ran[i] \in AuthzKinds
              => /\ \E j \in 1..(i - 1) : last.ran[j] = "authenticate"
                 /\ last.user # NoUser
                 /\ last.validToken

\* C15 witness: authorize has refused a user whom authenticate had accepted
C15_Witness ==
  /\ Answered /\ last.route \in AuthzRoutes /\ last.validToken
  /\ last.status = 403 /\ last.ran[Len(last.ran)] = "authorize"
  /\ last.ran[Len(last.ran) - 1] = "authenticate"


RejectStatuses == {400, 401, 403, 422, 429}

RejectingKinds == {"authenticate", "authorize", "validate", "userRateLimit"}

\* C16: when a stage of a declared stack has rejected a request (429, 401,
\* 403, 400 or 422), that stage is the last one that ran for the request,
\* the handler has not run and exactly one response has been sent.
C16_RejectionStopsPipeline ==
  (Answered /\ last.status \in RejectStatuses)
    => /\ last.ran[Len(last.ran)] \in RejectingKinds
       /\ ~last.handlerRan
       /\ last.responses = 1

\* C16 witness: validate has refused the data of an admin's request
C16_Witness ==
  /\ Answered /\ last.status = 422 /\ last.user.role = "admin"
  /\ last.ran[Len(last.ran)] = "validate" /\ last.responses = 1

-----------------------------------------------------------------------------
(* Token failures and propagated errors.  A request either crosses a v1    *)
(* route that requires authentication, or an error is passed to next() and *)
(* reaches errorHandler.                                                   *)

TokenHeaders ==
  {NoHeader, Bearer(1, FarExp, "ok"), Bearer(2, FarExp, "ok"),
   Bearer(2, SoonExp, "ok"), Bearer(2, FarExp, "bad"),
   Bearer(2, SoonExp, "bad"), Bearer(2, FarExp, "malformed")}

TokenRoutes == {"getOrders", "createProduct", "updateOrderStatus", "getUsers"}

\* AppError(message, statusCode) and its subclasses (errorHandler.js 97-123);
\* this.name is the name of the class
AppError(name, message, statusCode) ==
  [NoErr EXCEPT !.name = name, !.message = message, !.statusCode = statusCode]

\* new ValidationError(message, errors) (errorHandler.js 106-111)
ValidationError(message, errors) ==
  [AppError("ValidationError", message, 422) EXCEPT !.errors = errors]

\* the error jwt.verify throws for the token of the header
JwtError(hdr, t) ==
  [NoErr EXCEPT !.name = JwtVerify(hdr, t),
                !.message = IF hdr.sig = "bad" THEN "invalid signature"
                            ELSE IF hdr.sig = "malformed" THEN "jwt malformed"
                            ELSE "jwt expired"]

FieldErrors == {<<"field">>, <<"field", "other">>}

AppErrors ==
  {ValidationError("Validation failed", e) : e \in FieldErrors}
  \cup {[NoErr EXCEPT !.name = "SequelizeValidationError",
                      !.message = "Validation error", !.errors = e] :
          e \in FieldErrors}
  \cup {[NoErr EXCEPT !.name = "SequelizeUniqueConstraintError",
                      !.message = "Validation error",
                      !.errors = <<"field">>],
        [NoErr EXCEPT !.name = "SyntaxError", !.status = 400, !.body = TRUE,
                      !.message = "Unexpected token"],
        AppError("NotFoundError", "Resource not found", 404),
        AppError("UnauthorizedError", "Authentication required", 401),
        [NoErr EXCEPT !.name = "Error"]}

TokenRequest ==
  \E route \in TokenRoutes, hdr \in TokenHeaders,
     data \in {"valid", "invalid", "empty"} :
    ApiRequest(MkReq(route, hdr, <<>>, data, "ok", "ip1"))

\* next(err): express skips to the error-handling middleware
ErrorRequest(hdr, err) ==
  LET req == [MkReq("error", hdr, <<>>, "valid", "ok", "ip1")
                EXCEPT !.err = err]
      c == ErrorHandler(InitCtx(now), err)
  IN /\ Idle
     /\ last' = Summary(c, req)
     /\ UNCHANGED <<cache, timers, now, users, lastGet, userRequests,
                    admitted, authStore, loginCount, dynCount, win, firstMiss,
                    refreshTokens, held, inflight>>

\* a handler verifies the token itself and passes the failure on
JwtErrorRequest ==
  \E hdr \in TokenHeaders :
    /\ hdr.kind = "bearer"
    /\ JwtVerify(hdr, now) # "ok"
    /\ ErrorRequest(hdr, JwtError(hdr, now))

AppErrorRequest == \E err \in AppErrors : ErrorRequest(NoHeader, err)

NextErrors ==
  \/ TokenRequest
  \/ JwtErrorRequest
  \/ AppErrorRequest
  \/ Finish
  \/ Tick
  \/ \E key \in DOMAIN timers : TimerFire(key)

SpecErrors == Init /\ [][NextErrors]_vars

\* the token of the last request: correctly signed but past its exp
ExpiredToken ==
  last.hdr.kind = "bearer" /\ last.hdr.sig = "ok" /\ last.t >= last.hdr.exp

\* the token of the last request: wrong signature or not a JWT at all
InvalidToken == last.hdr.kind = "bearer" /\ last.hdr.sig # "ok"

\* the stage that answered is authenticate, or the answer is errorHandler's
\* for a propagated JWT error
TokenFailureAnswered ==
  /\ Answered
  /\ \/ /\ last.route \in TokenRoutes
        /\ last.ran # <<>>
        /\ last.ran[Len(last.ran)] = "authenticate"
     \/ /\ last.route = "error"
        /\ last.err.name \in {"JsonWebTokenError", "TokenExpiredError"}

\* how many times x occurs in the sequence
Occurrences(seq, x) == Cardinality({i \in 1..Len(seq) : seq[i] = x})

TokenFailuresDistinguished ==
  /\ (TokenFailureAnswered /\ ExpiredToken)
       => last.status = 401 /\ last.body.message = "Token expired"
  /\ (TokenFailureAnswered /\ InvalidToken)
       => last.status = 401 /\ last.body.message = "Invalid token"

\* C17 as stated: an expired token is reported as 'Token expired' and an
\* invalid or malformed one as 'Invalid token', always with status 401, by
\* authenticate and by errorHandler, and jwt.verify is attempted exactly once
\* in a request that reaches authenticate with a bearer token.
C17_VerifiedExactlyOnce ==
  /\ TokenFailuresDistinguished
  /\ (Answered /\ last.hdr.kind = "bearer" /\ "authenticate" \in Range(last.ran))
       => Len(last.verifies) = 1

\* C17 amended: the token failures are distinguished and always 401, and
\* each stage that verifies the token does so once: authenticate once, with
\* no second attempt after a failure (it is the last stage to run), and
\* optionalAuth of apiStack once before it, so that a request to an
\* authenticated v1 route sees two verifications of the same token.
C17_TokenFailures ==
  /\ TokenFailuresDistinguished
  /\ (Answered /\ last.hdr.kind = "bearer" /\ "authenticate" \in Range(last.ran))
       => /\ Occurrences(last.verifies, "authenticate") = 1
          /\ Occurrences(last.verifies, "optionalAuth")
               = Occurrences(last.ran, "optionalAuth")
          /\ Len(last.verifies) <= 2
          /\ (last.status = 401 /\ ~last.handlerRan)
               => last.verifies[Len(last.verifies)] = "authenticate"

C17_Witness ==
  /\ Answered /\ last.route = "getOrders" /\ ExpiredToken
  /\ last.status = 401 /\ last.body.message = "Token expired"
  /\ last.verifies = <<"optionalAuth", "authenticate">>

-----------------------------------------------------------------------------
(* The cache key and the order of the query parameters *)

\* ?brand=acme&status=active, the same parameters in the other order, and
\* no query string
OrderedQueries ==
  {<<>>, <<<<"brand", "acme">>, <<"status", "active">>>>,
   <<<<"status", "active">>, <<"brand", "acme">>>>}

QueryRequest ==
  \E query \in OrderedQueries :
    ApiRequest(MkReq("getProducts", NoHeader, query, "valid", "ok", "ip1"))

NextQuery ==
  \/ QueryRequest
  \/ Finish
  \/ Tick
  \/ \E key \in DOMAIN timers : TimerFire(key)

SpecQuery == Init /\ [][NextQuery]_vars

\* the set of name/value pairs written in the query part of a key
ParamsOfKey(key) ==
  {<<key[4][i - 1], key[4][i + 1]>> :
     i \in {j \in 2..(Len(key[4]) - 1) : key[4][j] = ":"}}

\* C18: two GET requests with the same method and path whose query strings
\* hold the same parameters and values, in whatever order, map to the same
\* cache key and share one cache entry: the store never holds two keys that
\* differ only in the order of the query parameters.
C18_OrderIndependentKey ==
  \A k1, k2 \in DOMAIN cache :
    (/\ k1[1] = k2[1] /\ k1[2] = k2[2] /\ k1[3] = k2[3]
     /\ ParamsOfKey(k1) = ParamsOfKey(k2))
      => k1 = k2

-----------------------------------------------------------------------------
(* Validation failures *)

\* C19: every input-validation failure is answered 422 with a body whose
\* errors array carries the field-level details, both when validate rejects
\* the request and when a ValidationError constructed with field errors is
\* passed to errorHandler.
C19_ValidationFailure422 ==
  /\ (/\ Answered /\ last.route \in TokenRoutes /\ ~last.handlerRan
      /\ last.ran[Len(last.ran)] = "validate")
       => last.status = 422 /\ last.body.errors # <<>>
  /\ (/\ Answered /\ last.route = "error"
      /\ last.err.name = "ValidationError" /\ last.err.errors # <<>>)
       => last.status = 422 /\ last.body.errors = last.err.errors

-----------------------------------------------------------------------------
(* Failures of the cache store *)

\* the operation of the store that throws while the request is processed
Faults == {"none", "key", "get", "set"}

FaultRoutes == {"getProducts", "getCategories"}

FaultRequest ==
  \E route \in FaultRoutes, hdr \in {NoHeader, Bearer(2, FarExp, "ok")},
     fault \in Faults :
    ApiRequest([MkReq(route, hdr, <<>>, "valid", "ok", "ip1")
                  EXCEPT !.fault = fault])

NextFault ==
  \/ FaultRequest
  \/ Finish
  \/ Tick
  \/ \E key \in DOMAIN timers : TimerFire(key)

SpecFault == Init /\ [][NextFault]_vars

\* C20: if the cache store fails (get, set or the key computation throws)
\* while a cacheable GET is processed, the request still reaches the route
\* handler and is answered with the handler's response, not with an error
\* response.
C20_StoreFailureFallsThrough ==
  (Answered /\ last.route \in FaultRoutes /\ last.fault # "none")
    => /\ last.handlerRan
       /\ last.status = 200
       /\ last.body.message = "ok"

-----------------------------------------------------------------------------
(* Denials of the authorization stages *)

\* the resources requirePermission is configured with
Resources ==
  {<<"users", "read">>, <<"products", "write">>, <<"orders", "own">>,
   <<"profile", "edit">>}

\* the authorization stages as a route would configure them
DenyStages ==
  {StAuthorize({"admin"}), StAuthorize({"admin", "moderator"}),
   StOwnerOrAdmin("id"), StPass("requireEmailVerification")}
  \cup {[StPass("requirePermission") EXCEPT !.patterns = r] : r \in Resources}

\* one request through authenticate, an authorization stage and a controller
DenyRequest(hdr, stage, value) ==
  LET req == [MkReq(stage.kind, hdr, <<>>, "valid", "ok", "ip1")
                EXCEPT !.params = "id" :> value, !.param = "id"]
      c == RunStack(<<StPass("authenticate"), stage, StHandler>>, 1,
                    InitCtx(now), req)
  IN /\ Idle
     /\ last' = Summary(c, req)
     /\ UNCHANGED <<cache, timers, now, users, lastGet, userRequests,
                    admitted, authStore, loginCount, dynCount, win, firstMiss,
                    refreshTokens, held, inflight>>

NextDeny ==
  \/ \E hdr \in RoleHeaders, stage \in DenyStages, value \in ParamValues :
       DenyRequest(hdr, stage, value)
  \/ \E st \in USER_STATUS : SetStatus(2, st)
  \/ Finish
  \/ Tick

SpecDeny == Init /\ [][NextDeny]_vars

\* the security log of the request holds an event naming the principal, its
\* role and the path requested
DenialLogged ==
  \E i \in 1..Len(last.securityLog) :
    /\ last.securityLog[i].userId = last.user.id
    /\ last.securityLog[i].role = last.user.role
    /\ last.securityLog[i].path = last.route

\* C21: every 403 issued by an authorization stage (authorize, ownerOrAdmin,
\* requirePermission, requireEmailVerification) emits a security log event
\* that identifies the principal id, its role and the requested path.
C21_DenialLogged ==
  (Answered /\ last.status = 403) => DenialLogged

-----------------------------------------------------------------------------
(* Requests in flight together.  authenticate is suspended at its await of *)
(* User.findByPk; the event loop resumes the suspended requests one at a   *)
(* time, in any order, and what follows the await up to the next await     *)
(* runs without interruption.                                              *)

MaxInflight == 3

ReqIds == 1..MaxInflight

\* a request reaches await User.findByPk in authenticate; it takes the
\* lowest id that is free
Arrive(id, hdr) ==
  /\ Idle
  /\ id \notin DOMAIN inflight
  /\ \A other \in ReqIds \ DOMAIN inflight : id <= other
  /\ inflight' = Override(inflight, id,
                          [route |-> "protected", hdr |-> hdr,
                           seen |-> userRequests])
  /\ UNCHANGED <<cache, timers, now, users, last, lastGet, userRequests,
                 admitted, authStore, loginCount, dynCount, win, firstMiss,
                 refreshTokens, held>>

\* userRateLimit reading the Map when the request arrived, not when it runs
RateHistoryAtArrival(id) == inflight[id].seen

\* userRequests.has / get (auth.js 179-183): the Map as it is when the
\* middleware runs
RateHistory(id) == userRequests

\* findByPk resolves: authenticate calls next(), and userRateLimit and the
\* controller run to the end without another await
ResumeProtected(id) ==
  LET r == inflight[id]
      req == MkReq("protected", r.hdr, <<>>, "valid", "ok", "ip1")
      c == RunStack(protectedStack \o <<StHandler>>, 1,
                    [InitCtx(now) EXCEPT !.userRequests = RateHistory(id)],
                    req)
      u == c.user.id
      prior == Len(SelectSeq(History(admitted, u),
                             LAMBDA ts : ts > now - WindowMs))
  IN /\ Idle
     /\ id \in DOMAIN inflight
     /\ r.route = "protected"
     /\ userRequests' = c.userRequests
     /\ admitted' = IF c.user # NoUser /\ c.handlerRan
                      THEN Override(admitted, u, Append(History(admitted, u), now))
                      ELSE admitted
     /\ last' = Summary2(c, req, prior, 0)
     /\ inflight' = Restrict(inflight, DOMAIN inflight \ {id})
     /\ UNCHANGED <<cache, timers, now, users, lastGet, authStore, loginCount,
                    dynCount, win, firstMiss, refreshTokens, held>>

NextConcRL ==
  \/ \E id \in ReqIds : Arrive(id, Bearer(2, FarExp, "ok"))
  \/ \E id \in ReqIds : ResumeProtected(id)
  \/ Finish
  \/ Tick

SpecConcRL == Init /\ [][NextConcRL]_vars

\* the admitted requests of user u with a timestamp in (t - windowMs, t]
AdmittedIn(u, t) ==
  SelectSeq(History(admitted, u), LAMBDA ts : ts > t - WindowMs /\ ts <= t)

\* C22: under every interleaving of the in-flight requests of one user
\* through one userRateLimit instance no update of the user's history is
\* lost: every admitted request still inside the window is in the history,
\* and the admitted requests with timestamps inside any window of windowMs
\* never exceed maxRequests.
C22_NoLostUpdate ==
  \A u \in DOMAIN admitted :
    /\ \A t \in Range(admitted[u]) \cup {now} :
         Len(AdmittedIn(u, t)) <= MaxRequests
    /\ Len(AdmittedIn(u, now))
         = Len(ValidRequests(History(userRequests, u), now - WindowMs))

\* C22 witness: a request of a user is answered 429, max of that user's
\* requests having been admitted at the same instant, while another request
\* of the same user that arrived with them is still suspended
C22_Witness ==
  /\ Answered /\ last.route = "protected" /\ last.status = 429
  /\ Len(AdmittedIn(last.user.id, now)) = MaxRequests
  /\ \E id \in DOMAIN inflight :
       /\ inflight[id].hdr.sub = last.user.id
       /\ inflight[id].seen = EmptyMap

-----------------------------------------------------------------------------
(* Cacheable GETs in flight together.  The apiCache of apiStack looks the  *)
(* key up and wraps res.json; optionalAuth, the next stage, awaits         *)
(* User.findByPk when the token verifies, and the store happens only when  *)
(* the controller calls res.json after the request has been resumed.       *)

\* optionalAuth reaches its await: a Bearer header whose token verifies
Suspends(req) ==
  req.hdr.kind = "bearer" /\ JwtVerify(req.hdr, now) = "ok" /\ req.db = "ok"

\* the stages of apiStack before optionalAuth
BeforeAwait == 3

\* GET /api/v1/products arrives and runs up to the first await, or to its
\* end when nothing awaits
ArriveGet(id, hdr) ==
  LET req == [MkReq("getProducts", hdr, <<>>, "valid", "ok", "ip1")
                EXCEPT !.arrivedCold =
                  Cold(MkReq("getProducts", hdr, <<>>, "valid", "ok", "ip1"))]
      c1 == RunStack(SubSeq(FullStack(req.route), 1, BeforeAwait), 1,
                     InitCtx(now), req)
      c == RunStack(FullStack(req.route), BeforeAwait + 1, c1, req)
  IN /\ Idle
     /\ id \notin DOMAIN inflight
     /\ \A other \in ReqIds \ DOMAIN inflight : id <= other
     /\ IF ~c1.sent /\ Suspends(req)
          THEN /\ inflight' = Override(inflight, id,
                                       [route |-> req.route, hdr |-> hdr,
                                        arrivedCold |-> req.arrivedCold,
                                        jsonWraps |-> c1.jsonWraps,
                                        ran |-> c1.ran])
               /\ cache' = c1.store.cache
               /\ timers' = c1.store.timers
               /\ UNCHANGED last
          ELSE /\ cache' = c.store.cache
               /\ timers' = c.store.timers
               /\ last' = Summary(c, req)
               /\ UNCHANGED inflight
     /\ UNCHANGED <<now, users, lastGet, userRequests, admitted, authStore,
                    loginCount, dynCount, win, firstMiss, refreshTokens, held>>

\* findByPk resolves: optionalAuth goes on, then the route's stack and the
\* controller, whose res.json runs the wrapper installed before the await
ResumeGet(id) ==
  LET r == inflight[id]
      req == [MkReq(r.route, r.hdr, <<>>, "valid", "ok", "ip1")
                EXCEPT !.arrivedCold = r.arrivedCold]
      c == RunStack(FullStack(r.route), BeforeAwait + 1,
                    [InitCtx(now) EXCEPT !.jsonWraps = r.jsonWraps,
                                         !.ran = r.ran],
                    req)
  IN /\ Idle
     /\ id \in DOMAIN inflight
     /\ r.route = "getProducts"
     /\ cache' = c.store.cache
     /\ timers' = c.store.timers
     /\ last' = Summary(c, req)
     /\ inflight' = Restrict(inflight, DOMAIN inflight \ {id})
     /\ UNCHANGED <<now, users, lastGet, userRequests, admitted, authStore,
                    loginCount, dynCount, win, firstMiss, refreshTokens, held>>

NextConcCache ==
  \/ \E id \in ReqIds,
        hdr \in {NoHeader, Bearer(2, FarExp, "ok"), Bearer(3, FarExp, "ok")} :
       ArriveGet(id, hdr)
  \/ \E id \in ReqIds : ResumeGet(id)
  \/ Finish
  \/ Tick
  \/ \E key \in DOMAIN timers : TimerFire(key)

SpecConcCache == Init /\ [][NextConcCache]_vars

\* C23: the cache's lookup-then-store is an atomic get-or-set: of two
\* identical cacheable GETs in flight together that both arrived while no
\* entry was stored, the handler runs for at most one; the other, completing
\* when the first has stored its entry, is served that entry.
C23_AtomicGetOrSet ==
  (/\ Answered /\ last.route = "getProducts"
   /\ last.arrivedCold /\ ~last.cold)
    => ~last.handlerRan /\ last.hitAt # <<>>

-----------------------------------------------------------------------------
(* Revocation of refresh tokens *)

\* revoke() marking the row the opposite of what it was
RtRevokedToggle(table, tok) == [table EXCEPT ![tok].isRevoked = ~@]

\* RefreshToken.prototype.revoke: this.isRevoked = true; this.save()
RtRevoked(table, tok) == [table EXCEPT ![tok].isRevoked = TRUE]

\* RefreshToken.revokeAllUserTokens: update isRevoked = true where userId
\* matches and isRevoked is false
RtAllRevoked(table, userId) ==
  [tok \in DOMAIN table |->
     IF table[tok].userId = userId /\ ~table[tok].isRevoked
       THEN [table[tok] EXCEPT !.isRevoked = TRUE]
       ELSE table[tok]]

\* revoke() on an instance of row tok, revoked already or not
RevokeInstance(tok) ==
  /\ tok \in DOMAIN refreshTokens
  /\ refreshTokens' = RtRevoked(refreshTokens, tok)
  /\ UNCHANGED <<cache, timers, now, users, last, lastGet, userRequests,
                 admitted, authStore, loginCount, dynCount, win, firstMiss,
                 held, inflight>>

\* revokeAllUserTokens(userId), whatever the user's rows are
RevokeAllOf(userId) ==
  /\ refreshTokens # EmptyMap
  /\ refreshTokens' = RtAllRevoked(refreshTokens, userId)
  /\ UNCHANGED <<cache, timers, now, users, last, lastGet, userRequests,
                 admitted, authStore, loginCount, dynCount, win, firstMiss,
                 held, inflight>>

NextRevoke ==
  \/ \E tok \in RtIds, u \in {1, 2}, k \in 1..MaxTtlTicks :
       RtCreate(tok, u, now + k * TickMs)
  \/ \E tok \in RtIds : RevokeInstance(tok)
  \/ \E u \in {1, 2} : RevokeAllOf(u)
  \/ RtCleanupExpiredTokens
  \/ Tick

SpecRevoke == Init /\ [][NextRevoke]_vars

\* table b is table a with nothing changed but isRevoked set on rows of S
OnlyRevokes(a, b, S) ==
  /\ DOMAIN b = DOMAIN a
  /\ \A tok \in DOMAIN a :
       IF tok \in S THEN b[tok] = [a[tok] EXCEPT !.isRevoked = TRUE]
       ELSE b[tok] = a[tok]

RevocationIdempotentTargeted ==
  /\ \A tok \in DOMAIN refreshTokens :
       /\ RtRevoked(RtRevoked(refreshTokens, tok), tok)
            = RtRevoked(refreshTokens, tok)
       /\ OnlyRevokes(refreshTokens, RtRevoked(refreshTokens, tok), {tok})
  /\ \A u \in {1, 2} :
       /\ RtAllRevoked(RtAllRevoked(refreshTokens, u), u)
            = RtAllRevoked(refreshTokens, u)
       /\ OnlyRevokes(refreshTokens, RtAllRevoked(refreshTokens, u),
                      {tok \in DOMAIN refreshTokens :
                         refreshTokens[tok].userId = u})

NeverUnrevoked ==
  \A tok \in DOMAIN refreshTokens \cap DOMAIN refreshTokens' :
    refreshTokens[tok].isRevoked => refreshTokens'[tok].isRevoked

\* C24: revocation is idempotent and targeted: revoke() on a token, or
\* revokeAllUserTokens(userId), applied a second time leaves the table as
\* one application did; each marks only the matching rows revoked and
\* changes nothing else; and no step turns isRevoked of a row from true
\* back to false.
C24_RevocationIdempotent ==
  []RevocationIdempotentTargeted /\ [][NeverUnrevoked]_vars

\* C24 witness: a row of one user is revoked while a row of another user is
\* not
C24_Witness ==
  \E a, b \in DOMAIN refreshTokens :
    /\ refreshTokens[a].isRevoked /\ ~refreshTokens[b].isRevoked
    /\ refreshTokens[a].userId # refreshTokens[b].userId

-----------------------------------------------------------------------------
(* The TTL a route declares and the time its responses are served *)

TtlRoutes == {"searchProducts", "getCategories", "getProductById"}

TtlRequest ==
  \E route \in TtlRoutes :
    ApiRequest(MkReq(route, NoHeader, <<>>, "valid", "ok", "ip1"))

NextTtl ==
  \/ TtlRequest
  \/ Finish
  \/ Tick
  \/ \E key \in DOMAIN timers : TimerFire(key)

SpecTtl == Init /\ [][NextTtl]_vars

\* C25: the TTL configured on a route bounds how long a cached response of
\* the route is served: a response answered from a cache is no older than
\* the route's TTL (600 s for GET /products/search, 1800 s for the category
\* listing and the product detail).
C25_RouteTtlBoundsServing ==
  (Answered /\ last.route \in TtlRoutes /\ last.hitAt # <<>>)
    => last.t - last.body.at <= RouteTtl(last.route) * 1000

-----------------------------------------------------------------------------
(* The users router: layers are tried in the order they were declared *)

usersRouter ==
  <<[method |-> "GET", pattern |-> <<"/">>, route |-> "getUsers"],
    [method |-> "GET", pattern |-> <<"/", ":id">>, route |-> "getUserById"],
    [method |-> "PUT", pattern |-> <<"/", ":id">>, route |-> "updateUser"],
    [method |-> "DELETE", pattern |-> <<"/", ":id">>, route |-> "deleteUser"],
    [method |-> "GET", pattern |-> profilePath, route |-> "getProfile"],
    [method |-> "PUT", pattern |-> profilePath, route |-> "updateProfile"]>>

\* a layer matches when the method is its own and every segment of its
\* pattern is the request's segment or a named parameter
LayerMatches(layer, method, sub) ==
  /\ layer.method = method
  /\ Len(layer.pattern) = Len(sub)
  /\ \A i \in 1..Len(sub) :
       layer.pattern[i] = sub[i] \/ layer.pattern[i] = ":id"

MatchingLayers(router, method, sub) ==
  {i \in 1..Len(router) : LayerMatches(router[i], method, sub)}

\* the first layer that matches handles the request; its stack ends the
\* response or reaches the controller, and never calls next('route')
Dispatch(router, method, sub) ==
  LET m == MatchingLayers(router, method, sub)
  IN router[CHOOSE i \in m : \A j \in m : i <= j]

\* idParam: Joi.number().integer().positive().required()
IdParamOk(value) == ToNumber(value) > 0

UserMethods == {"GET", "PUT", "DELETE"}
UserPaths == {<<"/">>, idPath, profilePath}

UsersRequest(method, sub, hdr, data) ==
  LET layer == Dispatch(usersRouter, method, sub)
      captured == Len(sub) = 2 /\ layer.pattern[2] = ":id"
      req == [MkReq(layer.route, hdr, <<>>,
                    IF captured /\ ~IdParamOk(sub[2]) THEN "invalid" ELSE data,
                    "ok", "ip1")
                EXCEPT !.params = IF captured THEN "id" :> sub[2] ELSE EmptyMap,
                       !.method = method, !.path = sub]
  IN ApiRequest(req)

NextUsers ==
  \/ \E method \in UserMethods, sub \in UserPaths, hdr \in Headers,
        data \in {"valid", "invalid"} :
       /\ MatchingLayers(usersRouter, method, sub) # {}
       /\ UsersRequest(method, sub, hdr, data)
  \/ Finish
  \/ Tick

SpecUsers == Init /\ [][NextUsers]_vars

\* C26: an authenticated GET /api/v1/users/profile is answered by getProfile
\* and an authenticated PUT /api/v1/users/profile by updateProfile; neither
\* is captured by the '/:id' routes declared earlier in the router.
C26_ProfileReachesItsHandler ==
  (/\ Answered /\ last.path = profilePath /\ last.method \in {"GET", "PUT"}
   /\ last.user.id # 0)
    => /\ last.route = (IF last.method = "GET" THEN "getProfile"
                                                ELSE "updateProfile")
       /\ "id" \notin DOMAIN last.params

-----------------------------------------------------------------------------
(* Cache keys of requests for different routes *)

KeyRoutes == {"getProducts", "getCategories", "getProductById",
              "getCategoryById"}

KeyRequest ==
  \E route \in KeyRoutes :
    ApiRequest(MkReq(route, NoHeader, <<>>, "valid", "ok", "ip1"))

NextKeys ==
  \/ KeyRequest
  \/ Finish
  \/ Tick
  \/ \E key \in DOMAIN timers : TimerFire(key)

SpecKeys == Init /\ [][NextKeys]_vars

\* C27: GET requests whose full paths differ never share a cache key in any
\* cache layer, so a request answered from a cache receives a payload that
\* was produced for its own route.
C27_PayloadOfOwnRoute ==
  (Answered /\ last.route \in KeyRoutes /\ last.hitAt # <<>>)
    => last.body.route = last.route

-----------------------------------------------------------------------------
(* Timers and entries of a MemoryCache (specification SpecCache) *)

\* the pending timer of a key is the one armed by the set that wrote the
\* stored entry
OwnTimer(key) == timers[key] = cache[key].timestamp + cache[key].ttl

\* C28: after any sequence of set/get/delete/clear calls and timer
\* expirations, the keys with a pending expiry timer are the keys with a
\* stored entry, and the pending timer of a key is the one armed together
\* with the stored entry, so the timer of an earlier set never deletes the
\* entry written by a later set.
C28_TimersMatchEntries ==
  /\ DOMAIN timers = DOMAIN cache
  /\ \A key \in DOMAIN cache : OwnTimer(key)

\* C28 witness: get returned an entry of the key at the instant its timer
\* came due; a later set has written another value under the key, which is
\* stored with its own timer pending
C28_Witness ==
  \E key \in DOMAIN cache :
    /\ lastGet.hit /\ lastGet.key = key /\ lastGet.timerDue
    /\ lastGet.ttl > 0
    /\ cache[key].data # lastGet.data
    /\ cache[key].timestamp = now
    /\ key \in DOMAIN timers /\ timers[key] > now /\ OwnTimer(key)

-----------------------------------------------------------------------------
(* isValid, findValidToken and cleanupExpiredTokens at the same instant *)
(* (specification SpecRevoke)                                           *)

\* RefreshToken.findValidToken(token): the rows with this token that are not
\* revoked and whose expiresAt is greater than the clock
RtFindValidToken(table, tok, t) ==
  {id \in DOMAIN table :
     id = tok /\ ~table[id].isRevoked /\ table[id].expiresAt > t}

\* RefreshToken.cleanupExpiredTokens: the rows destroy() selects
RtCleanupSelects(table, t) ==
  {id \in DOMAIN table : table[id].expiresAt < t}

ChecksAgree ==
  \A tok \in DOMAIN refreshTokens :
    RtIsValid(refreshTokens[tok], now)
      <=> RtFindValidToken(refreshTokens, tok, now) # {}

CleanupSparesValid ==
  \A tok \in DOMAIN refreshTokens :
    (\/ RtIsValid(refreshTokens[tok], now)
     \/ RtFindValidToken(refreshTokens, tok, now) # {})
      => (tok \notin RtCleanupSelects(refreshTokens, now)
          /\ (now' = now => tok \in DOMAIN refreshTokens'))

CleanupNeverDeletesValid == [][CleanupSparesValid]_vars

\* C29: for every refresh token and clock value, isValid() is true exactly
\* when findValidToken(token) returns the token, and cleanupExpiredTokens
\* never deletes a token for which either check is true.
C29_ValidityChecksAgree ==
  []ChecksAgree /\ CleanupNeverDeletesValid

-----------------------------------------------------------------------------
(* What a mutating request removes from the cache (specification SpecPurge) *)

PurgeRoutes == ProductMutations \cup {"createCategory"}

PurgeGets == {"getProducts", "getCategories"}

\* the patterns the route passes to invalidateCache
DeclaredPatterns(route) ==
  UNION {Range(s.patterns) :
           s \in {x \in Range(Routes[route].stack) : x.kind = "invalidateCache"}}

PurgeFill ==
  \E route \in PurgeGets :
    ApiRequest(MkReq(route, NoHeader, <<>>, "valid", "ok", "ip1"))

PurgeRequest ==
  \E route \in PurgeRoutes, hdr \in Headers,
     data \in {"valid", "invalid", "empty"} :
    ApiRequest(MkReq(route, hdr, <<>>, data, "ok", "ip1"))

\* the controller of a mutating route passes an error to next(err): the
\* stages before it have run, errorHandler answers through the same res
FailingMutation(route, hdr, err) ==
  LET req == [MkReq(route, hdr, <<>>, "valid", "ok", "ip1") EXCEPT !.err = err]
      c0 == RunStack(apiStack \o Routes[route].stack, 1, InitCtx(now), req)
      c == IF c0.sent THEN c0 ELSE ErrorHandler(c0, err)
  IN /\ Idle
     /\ cache' = c.store.cache
     /\ timers' = c.store.timers
     /\ last' = Summary(c, req)
     /\ UNCHANGED <<now, users, lastGet, userRequests, admitted, authStore,
                    loginCount, dynCount, win, firstMiss, refreshTokens, held,
                    inflight>>

NextPurge ==
  \/ PurgeFill
  \/ PurgeRequest
  \/ \E route \in PurgeRoutes, err \in AppErrors :
       FailingMutation(route, Bearer(1, FarExp, "ok"), err)
  \/ Finish
  \/ Tick
  \/ \E key \in DOMAIN timers : TimerFire(key)

SpecPurge == Init /\ [][NextPurge]_vars

\* the step answers a request of a mutating route
MutationAnswered ==
  last = NoLast /\ last' # NoLast /\ last'.route \in PurgeRoutes

PurgeFrame ==
  LET removed == DOMAIN cache \ DOMAIN cache'
  IN /\ DOMAIN cache' \subseteq DOMAIN cache
     /\ \A k \in DOMAIN cache' : cache'[k] = cache[k] /\ timers'[k] = timers[k]
     /\ ~(last'.status >= 200 /\ last'.status < 300) => removed = {}
     /\ \A k \in removed :
          \E pattern \in DeclaredPatterns(last'.route) : KeyIncludes(k, pattern)

\* C30: a mutating request leaves every cache entry unchanged unless it
\* completes with a 2xx status: rejected before reaching invalidateCache, or
\* answered with a status outside 200-299, it purges nothing; a successful
\* one removes only entries whose key contains one of its declared patterns.
C30_PurgeOnlyOnSuccess ==
  [][MutationAnswered => PurgeFrame]_vars

\* C30 witness: the controller of a mutating route failed after
\* invalidateCache had wrapped res.send; the answer is not 2xx and the
\* entries stored before are still there
C30_Witness ==
  /\ Answered /\ last.route \in PurgeRoutes /\ last.err # NoErr
  /\ "invalidateCache" \in Range(last.ran)
  /\ ~(last.status >= 200 /\ last.status < 300)
  /\ last.purged = {} /\ DOMAIN cache # {} /\ DOMAIN timers = DOMAIN cache

====
